---- MODULE Spec2Model ----
(***************************************************************************)
(* Student Management System: the record store of src/script.js            *)
(* (StudentManager and the add / edit / delete / import handlers) and the  *)
(* file-backed REST server of src/server.js.                               *)
(*                                                                         *)
(* Text is a sequence of one-character strings, so that toLowerCase and    *)
(* trim are computed.  JavaScript null is the empty sequence Null; no id   *)
(* is empty, because Date.now().toString() has at least one digit.         *)
(***************************************************************************)
EXTENDS Integers, Sequences, FiniteSets, TLC

\* ---------------------------------------------------------------- bounds
MaxStudents == 2        \* records held by one collection
MaxClock == 2           \* distinct values Date.now() takes in a session
Today == 5000           \* day number of the session's "now"
YearLen == 365          \* days in a year of the calendar arithmetic

\* ------------------------------------------------------------------ text
Null == <<>>

LowerChar(c) ==
    CASE c = "A" -> "a"
      [] c = "B" -> "b"
      [] c = "L" -> "l"
      [] c = "R" -> "r"
      [] c = "X" -> "x"
      [] OTHER -> c

toLowerCase(s) == [i \in 1..Len(s) |-> LowerChar(s[i])]

RECURSIVE trimStart(_)
trimStart(s) ==
    IF s # <<>> /\ Head(s) = " " THEN trimStart(Tail(s)) ELSE s

RECURSIVE trimEnd(_)
trimEnd(s) ==
    IF s # <<>> /\ s[Len(s)] = " " THEN trimEnd(SubSeq(s, 1, Len(s) - 1)) ELSE s

trim(s) == trimEnd(trimStart(s))

Digit(d) == <<"0", "1", "2", "3", "4", "5", "6", "7", "8", "9">>[d + 1]

RECURSIVE toString(_)
toString(n) ==
    IF n < 10 THEN <<Digit(n)>> ELSE toString(n \div 10) \o <<Digit(n % 10)>>

\* ------------------------------------------------------------ collections
\* Array.prototype.findIndex, 1-based; 0 stands for -1
RECURSIVE findIndexFrom(_, _, _)
findIndexFrom(students, id, i) ==
    IF i > Len(students) THEN 0
    ELSE IF students[i].id = id THEN i
    ELSE findIndexFrom(students, id, i + 1)

findIndex(students, id) == findIndexFrom(students, id, 1)

\* Array.prototype.splice(index, 1)
splice(students, index) ==
    SubSeq(students, 1, index - 1) \o SubSeq(students, index + 1, Len(students))

\* Array.prototype.filter(s => s.id !== id)
RECURSIVE filterOut(_, _)
filterOut(students, id) ==
    IF students = <<>> THEN <<>>
    ELSE IF Head(students).id # id
         THEN <<Head(students)>> \o filterOut(Tail(students), id)
         ELSE filterOut(Tail(students), id)

Fields == {"firstName", "lastName", "rollNo", "admissionNo", "class",
           "section", "dob", "picture"}

\* variant: the spread written { id, ...old, ...updatedData }
mergeSpread_IdFirst(old, updatedData, id) ==
    [f \in DOMAIN old \cup DOMAIN updatedData \cup {"id"} |->
        IF f \in DOMAIN updatedData THEN updatedData[f]
        ELSE IF f \in DOMAIN old THEN old[f]
        ELSE id]

\* object spread { ...old, ...updatedData, id }
mergeSpread(old, updatedData, id) ==
    [f \in DOMAIN old \cup DOMAIN updatedData \cup {"id"} |->
        IF f = "id" THEN id
        ELSE IF f \in DOMAIN updatedData THEN updatedData[f]
        ELSE old[f]]

\* { ...student, id } of a freshly created record
withId(student, id) ==
    [f \in DOMAIN student \cup {"id"} |-> IF f = "id" THEN id ELSE student[f]]

\* ----------------------------------------------------------------- inputs
Ann == <<"A", "n", "n">>
Bob == <<"B", "o", "b">>
Lee == <<"L", "e", "e">>
r1 == <<"r", "1">>
R1 == <<"R", "1">>
r2 == <<"r", "2">>
x1 == <<"x", "1">>
X1 == <<"X", "1">>
x2 == <<"x", "2">>
\* dates of birth: 3 years and 1 day before now, yesterday, today, tomorrow,
\* 3 years minus 1 day before now
OldEnough == <<Today - 3 * YearLen - 1>>
TooYoung == <<Today - 1>>
BornToday == <<Today>>
BornTomorrow == <<Today + 1>>
AlmostThree == <<Today - 3 * YearLen + 1>>

Form(first, roll, adm) ==
    [firstName |-> first, lastName |-> Lee, rollNo |-> roll, admissionNo |-> adm,
     class |-> <<"1", "0">>, section |-> <<"A">>, dob |-> OldEnough,
     picture |-> Null]

\* field sets that pass every non-uniqueness validation
CleanForms ==
    {Form(Ann, r1, x1), Form(Bob, R1, x2), Form(Ann, r2, X1),
     Form(Bob, r2, x2), Form(Ann, R1, X1)}

\* what a user can type into the add / edit form
RawForms ==
    CleanForms
    \cup {[Form(Bob, <<" ", "r", "1", " ">>, <<" ", "x", "1">>) EXCEPT !.lastName = <<"L", "e", "e", " ">>],
          [Form(<<" ">>, r2, x2) EXCEPT !.picture = <<"i", "m", "g">>],
          [Form(Bob, <<>>, x1) EXCEPT !.section = <<>>],
          [Form(Bob, r1, x2) EXCEPT !.dob = TooYoung],
          [Form(Ann, r2, <<" ">>) EXCEPT !.dob = <<>>]}

\* forms that differ in the date of birth
DobForms ==
    {Form(Ann, r1, x1), Form(Bob, r2, x2),
     [Form(Ann, r1, x1) EXCEPT !.dob = <<>>],
     [Form(Ann, r1, x1) EXCEPT !.dob = TooYoung],
     [Form(Bob, r2, x2) EXCEPT !.dob = BornToday],
     [Form(Bob, r2, x2) EXCEPT !.dob = BornTomorrow],
     [Form(Ann, r2, x2) EXCEPT !.dob = AlmostThree],
     [Form(Bob, R1, x2) EXCEPT !.dob = <<Today - 3 * YearLen>>]}

Ids == {toString(n) : n \in 1..MaxClock}

\* ------------------------------------------------- StudentManager (pure)
getStudent(students, id) ==
    LET i == findIndex(students, id) IN
    IF i = 0 THEN <<>> ELSE <<students[i]>>

\* variant: the comparison without toLowerCase
isRollNoUnique_CaseSensitive(students, rollNo, excludeId) ==
    ~ \E i \in 1..Len(students) :
        /\ students[i].rollNo = rollNo
        /\ students[i].id # excludeId

isRollNoUnique(students, rollNo, excludeId) ==
    ~ \E i \in 1..Len(students) :
        /\ toLowerCase(students[i].rollNo) = toLowerCase(rollNo)
        /\ students[i].id # excludeId

\* variant: the comparison without the exclusion of excludeId
isAdmissionNoUnique_NoExclusion(students, admissionNo, excludeId) ==
    ~ \E i \in 1..Len(students) :
        toLowerCase(students[i].admissionNo) = toLowerCase(admissionNo)

isAdmissionNoUnique(students, admissionNo, excludeId) ==
    ~ \E i \in 1..Len(students) :
        /\ toLowerCase(students[i].admissionNo) = toLowerCase(admissionNo)
        /\ students[i].id # excludeId

\* ---------------------------------------------------------- FormValidator
validateRequired(value) == trim(value) # <<>>

validateSelect(value) == value # <<>>

\* variant: without the check of the minimum age
validateDate_NoMinAge(value) ==
    IF value = <<>> THEN FALSE
    ELSE IF value[1] > Today THEN FALSE
    ELSE TRUE

\* dates are day numbers; "now" is some instant inside day Today, a form
\* date is the midnight that starts its day
validateDate(value) ==
    IF value = <<>> THEN FALSE
    ELSE IF value[1] > Today THEN FALSE
    ELSE IF value[1] > Today - 3 * YearLen THEN FALSE
    ELSE TRUE

\* the errors the submit handlers of the add and edit forms collect, as
\* <<field, kind>> pairs, in the order the handler validates
formErrors(students, raw, excludeId) ==
    LET e1 == IF validateRequired(raw.firstName) THEN {} ELSE {<<"firstName", "required">>}
        v1 == e1 = {}
        e2 == IF validateRequired(raw.lastName) THEN {} ELSE {<<"lastName", "required">>}
        v2 == e2 = {} /\ v1
        rollNo == trim(raw.rollNo)
        e3 == IF validateRequired(raw.rollNo) THEN {} ELSE {<<"rollNo", "required">>}
        v3 == e3 = {} /\ v2
        e4 == IF v3 /\ rollNo # <<>> /\ ~isRollNoUnique(students, rollNo, excludeId)
              THEN {<<"rollNo", "taken">>} ELSE {}
        v4 == e4 = {} /\ v3
        admissionNo == trim(raw.admissionNo)
        e5 == IF validateRequired(raw.admissionNo) THEN {} ELSE {<<"admissionNo", "required">>}
        v5 == e5 = {} /\ v4
        e6 == IF v5 /\ admissionNo # <<>> /\ ~isAdmissionNoUnique(students, admissionNo, excludeId)
              THEN {<<"admissionNo", "taken">>} ELSE {}
        e7 == IF validateSelect(raw.class) THEN {} ELSE {<<"class", "select">>}
        e8 == IF validateSelect(raw.section) THEN {} ELSE {<<"section", "select">>}
        e9 == IF validateDate(raw.dob) THEN {} ELSE {<<"dob", "date">>}
    IN  e1 \cup e2 \cup e3 \cup e4 \cup e5 \cup e6 \cup e7 \cup e8 \cup e9

\* the formData object the submit handlers build
formData(raw) ==
    [firstName |-> trim(raw.firstName), lastName |-> trim(raw.lastName),
     rollNo |-> trim(raw.rollNo), admissionNo |-> trim(raw.admissionNo),
     class |-> raw.class, section |-> raw.section, dob |-> raw.dob,
     picture |-> raw.picture]

\* --------------------------------------------------------- filter and sort
\* String.prototype.includes
includes(str, sub) ==
    \E i \in 0..(Len(str) - Len(sub)) : SubSeq(str, i + 1, i + Len(sub)) = sub

IsDigit(c) == c \in {"0", "1", "2", "3", "4", "5", "6", "7", "8", "9"}

DigitVal(c) == CHOOSE d \in 0..9 : Digit(d) = c

\* the length of the run of digits a text starts with
RECURSIVE digitRun(_)
digitRun(s) ==
    IF s # <<>> /\ IsDigit(Head(s)) THEN 1 + digitRun(Tail(s)) ELSE 0

\* the value of a text of digits
RECURSIVE digitsValue(_)
digitsValue(s) ==
    IF s = <<>> THEN 0
    ELSE 10 * digitsValue(SubSeq(s, 1, Len(s) - 1)) + DigitVal(s[Len(s)])

\* parseInt of a text without sign or leading white space: <<n>>, or <<>>
\* for NaN
parseInt(s) ==
    LET n == digitRun(s) IN
    IF n = 0 THEN <<>> ELSE <<digitsValue(SubSeq(s, 1, n))>>

Alphabet == <<"a", "b", "e", "g", "i", "l", "m", "n", "o", "r", "x", "z">>

\* the primary collation weight of a character, as <<group, rank>>: white
\* space, then digits, then letters without regard to case
charWeight(c) ==
    IF c = " " THEN <<0, 0>>
    ELSE IF IsDigit(c) THEN <<1, DigitVal(c)>>
    ELSE <<2, CHOOSE k \in 1..Len(Alphabet) : Alphabet[k] = LowerChar(c)>>

\* the primary key of a text; with the option numeric, a run of digits
\* weighs as the number it writes
RECURSIVE collationKey(_, _)
collationKey(s, numeric) ==
    IF s = <<>> THEN <<>>
    ELSE IF numeric /\ IsDigit(Head(s))
    THEN LET n == digitRun(s) IN
         <<<<1, digitsValue(SubSeq(s, 1, n))>>>>
             \o collationKey(SubSeq(s, n + 1, Len(s)), numeric)
    ELSE <<charWeight(Head(s))>> \o collationKey(Tail(s), numeric)

\* the case key of a text: lower case before upper case
caseKey(s) == [i \in 1..Len(s) |-> <<IF LowerChar(s[i]) # s[i] THEN 1 ELSE 0, 0>>]

\* lexicographic comparison of two keys: -1, 0 or 1
RECURSIVE compareKeys(_, _)
compareKeys(k1, k2) ==
    IF k1 = <<>> /\ k2 = <<>> THEN 0
    ELSE IF k1 = <<>> THEN -1
    ELSE IF k2 = <<>> THEN 1
    ELSE IF Head(k1)[1] # Head(k2)[1]
         THEN (IF Head(k1)[1] < Head(k2)[1] THEN -1 ELSE 1)
    ELSE IF Head(k1)[2] # Head(k2)[2]
         THEN (IF Head(k1)[2] < Head(k2)[2] THEN -1 ELSE 1)
    ELSE compareKeys(Tail(k1), Tail(k2))

\* String.prototype.localeCompare(b, undefined, { numeric })
localeCompare(a, b, numeric) ==
    LET p == compareKeys(collationKey(a, numeric), collationKey(b, numeric)) IN
    IF p # 0 THEN p ELSE compareKeys(caseKey(a), caseKey(b))

fullName(student) ==
    toLowerCase(student.firstName \o <<" ">> \o student.lastName)

\* variant: the roll number comparison without { numeric: true }
compareFn_NotNumeric(sortBy, a, b) ==
    CASE sortBy = "name-asc" -> localeCompare(fullName(a), fullName(b), FALSE)
      [] sortBy = "name-desc" -> localeCompare(fullName(b), fullName(a), FALSE)
      [] sortBy = "roll-asc" -> localeCompare(a.rollNo, b.rollNo, FALSE)
      [] sortBy = "roll-desc" -> localeCompare(b.rollNo, a.rollNo, FALSE)
      [] sortBy = "date-newest" ->
            IF parseInt(a.id) = <<>> \/ parseInt(b.id) = <<>> THEN 0
            ELSE parseInt(b.id)[1] - parseInt(a.id)[1]
      [] sortBy = "date-oldest" ->
            IF parseInt(a.id) = <<>> \/ parseInt(b.id) = <<>> THEN 0
            ELSE parseInt(a.id)[1] - parseInt(b.id)[1]
      [] OTHER -> 0

\* variant: the ids compared as text, without parseInt
compareFn_IdAsText(sortBy, a, b) ==
    CASE sortBy = "name-asc" -> localeCompare(fullName(a), fullName(b), FALSE)
      [] sortBy = "name-desc" -> localeCompare(fullName(b), fullName(a), FALSE)
      [] sortBy = "roll-asc" -> localeCompare(a.rollNo, b.rollNo, TRUE)
      [] sortBy = "roll-desc" -> localeCompare(b.rollNo, a.rollNo, TRUE)
      [] sortBy = "date-newest" -> localeCompare(b.id, a.id, FALSE)
      [] sortBy = "date-oldest" -> localeCompare(a.id, b.id, FALSE)
      [] OTHER -> 0

\* the comparator the sort switch selects; 0 where the switch selects none
compareFn(sortBy, a, b) ==
    CASE sortBy = "name-asc" -> localeCompare(fullName(a), fullName(b), FALSE)
      [] sortBy = "name-desc" -> localeCompare(fullName(b), fullName(a), FALSE)
      [] sortBy = "roll-asc" -> localeCompare(a.rollNo, b.rollNo, TRUE)
      [] sortBy = "roll-desc" -> localeCompare(b.rollNo, a.rollNo, TRUE)
      [] sortBy = "date-newest" ->
            IF parseInt(a.id) = <<>> \/ parseInt(b.id) = <<>> THEN 0
            ELSE parseInt(b.id)[1] - parseInt(a.id)[1]
      [] sortBy = "date-oldest" ->
            IF parseInt(a.id) = <<>> \/ parseInt(b.id) = <<>> THEN 0
            ELSE parseInt(a.id)[1] - parseInt(b.id)[1]
      [] OTHER -> 0

\* one record put into a sorted array after every record not greater
RECURSIVE insertSorted(_, _, _)
insertSorted(sorted, x, sortBy) ==
    IF sorted # <<>> /\ compareFn(sortBy, sorted[Len(sorted)], x) > 0
    THEN Append(insertSorted(SubSeq(sorted, 1, Len(sorted) - 1), x, sortBy),
                sorted[Len(sorted)])
    ELSE Append(sorted, x)

\* Array.prototype.sort, which is stable
RECURSIVE sort(_, _)
sort(array, sortBy) ==
    IF array = <<>> THEN <<>>
    ELSE insertSorted(sort(SubSeq(array, 1, Len(array) - 1), sortBy),
                      array[Len(array)], sortBy)

\* variant: the first name searched in place of the full name
matchesSearch_FirstNameOnly(student, searchTerm) ==
    \/ includes(toLowerCase(student.firstName), searchTerm)
    \/ includes(toLowerCase(student.rollNo), searchTerm)
    \/ includes(toLowerCase(student.admissionNo), searchTerm)

matchesSearch(student, searchTerm) ==
    \/ includes(fullName(student), searchTerm)
    \/ includes(toLowerCase(student.rollNo), searchTerm)
    \/ includes(toLowerCase(student.admissionNo), searchTerm)

\* variant: the array sorted in place, without the copy [...students]
filterAndSortStudents_InPlace(students, filters) ==
    LET searchTerm == toLowerCase(filters.searchTerm)
        bySearch(s) == matchesSearch(s, searchTerm)
        byClass(s) == s.class = filters.class
        bySection(s) == s.section = filters.section
        f1 == IF filters.searchTerm # <<>> THEN SelectSeq(students, bySearch)
              ELSE students
        f2 == IF filters.class # <<>> THEN SelectSeq(f1, byClass) ELSE f1
        f3 == IF filters.section # <<>> THEN SelectSeq(f2, bySection) ELSE f2
        filtered == IF filters.sortBy # "" THEN sort(f3, filters.sortBy) ELSE f3
        same == filters.searchTerm = <<>> /\ filters.class = <<>>
                    /\ filters.section = <<>>
    IN  [filtered |-> filtered,
         students |-> IF same THEN filtered ELSE students]

\* variant: the section filter comparing student.class
filterAndSortStudents_SectionOnClass(students, filters) ==
    LET searchTerm == toLowerCase(filters.searchTerm)
        bySearch(s) == matchesSearch(s, searchTerm)
        byClass(s) == s.class = filters.class
        bySection(s) == s.class = filters.section
        copy == students
        f1 == IF filters.searchTerm # <<>> THEN SelectSeq(copy, bySearch)
              ELSE copy
        f2 == IF filters.class # <<>> THEN SelectSeq(f1, byClass) ELSE f1
        f3 == IF filters.section # <<>> THEN SelectSeq(f2, bySection) ELSE f2
        filtered == IF filters.sortBy # "" THEN sort(f3, filters.sortBy) ELSE f3
    IN  [filtered |-> filtered, students |-> students]

\* filterAndSortStudents under currentFilters = filters: the array returned
\* and the array passed, as the call leaves it
filterAndSortStudents(students, filters) ==
    LET searchTerm == toLowerCase(filters.searchTerm)
        bySearch(s) == matchesSearch(s, searchTerm)
        byClass(s) == s.class = filters.class
        bySection(s) == s.section = filters.section
        copy == students
        f1 == IF filters.searchTerm # <<>> THEN SelectSeq(copy, bySearch)
              ELSE copy
        f2 == IF filters.class # <<>> THEN SelectSeq(f1, byClass) ELSE f1
        f3 == IF filters.section # <<>> THEN SelectSeq(f2, bySection) ELSE f2
        filtered == IF filters.sortBy # "" THEN sort(f3, filters.sortBy) ELSE f3
    IN  [filtered |-> filtered, students |-> students]

\* ------------------------------------------------------ server (pure part)
RequiredFields == {"firstName", "lastName", "rollNo", "admissionNo", "class",
                   "section", "dob"}

falsy(body, f) == f \notin DOMAIN body \/ body[f] = <<>>

\* POST /api/students: the status, the data file afterwards, the response
postStudents(file, body, now) ==
    IF \E f \in RequiredFields : falsy(body, f)
    THEN [status |-> 400, file |-> file, body |-> <<>>]
    ELSE IF \E i \in 1..Len(file) :
                toLowerCase(file[i].rollNo) = toLowerCase(body.rollNo)
    THEN [status |-> 400, file |-> file, body |-> <<>>]
    ELSE IF \E i \in 1..Len(file) :
                toLowerCase(file[i].admissionNo) = toLowerCase(body.admissionNo)
    THEN [status |-> 400, file |-> file, body |-> <<>>]
    ELSE LET newStudent == withId(body, toString(now)) IN
         [status |-> 201, file |-> Append(file, newStudent), body |-> <<newStudent>>]

\* PUT /api/students/:id
putStudent(file, id, body) ==
    LET index == findIndex(file, id) IN
    IF index = 0 THEN [status |-> 404, file |-> file]
    ELSE [status |-> 200,
          file |-> [file EXCEPT ![index] = mergeSpread(file[index], body, id)]]

\* DELETE /api/students/:id
deleteStudentRoute(file, id) ==
    LET filteredStudents == filterOut(file, id) IN
    IF Len(file) = Len(filteredStudents) THEN [status |-> 404, file |-> file]
    ELSE [status |-> 200, file |-> filteredStudents]

\* ------------------------------------- the server's handlers, with file faults
\* a JSON number in a request body: a value that has no toLowerCase; it is
\* written with a leading mark so that it differs from every text
Seven == <<"#", "7">>

isString(v) == Len(v) = 0 \/ v[1] # "#"

\* variant: without the catch, the stored content is passed on as it is
readStudents_NoCatch(file, readOk) ==
    file

\* readStudents; readOk: readFile and JSON.parse succeeded
readStudents(file, readOk) ==
    IF readOk THEN file ELSE <<>>

\* writeStudents; writeOk: writeFile succeeded. A failed write is taken to
\* leave the file as it was; a file it left unreadable is the case readOk
\* = FALSE of the reads that follow
writeStudents(file, students, writeOk) ==
    IF writeOk THEN [ok |-> TRUE, file |-> students]
    ELSE [ok |-> FALSE, file |-> file]

\* students.some(s => s[key].toLowerCase() === value.toLowerCase()):
\* "true", "false", or "throws" when the scan reaches a value that is no text
\* before it reaches a match
someKey(students, key, value) ==
    LET bad(i) == ~isString(students[i][key]) \/ ~isString(value)
        hit(i) == ~bad(i) /\ toLowerCase(students[i][key]) = toLowerCase(value)
    IN  IF \E i \in 1..Len(students) : bad(i) /\ \A j \in 1..(i - 1) : ~hit(j)
        THEN "throws"
        ELSE IF \E i \in 1..Len(students) : hit(i) THEN "true" ELSE "false"

\* POST /api/students from the array readStudents returned up to the await
\* of writeStudents: the status answered at once (0: none yet) and the array
\* handed to writeStudents
postBeforeWrite(students, body, now) ==
    LET rollNoExists == someKey(students, "rollNo", body.rollNo)
        admissionNoExists == someKey(students, "admissionNo", body.admissionNo)
        newStudent == withId(body, toString(now))
        answer(s) == [status |-> s, students |-> students, body |-> <<>>]
    IN  IF \E f \in RequiredFields : falsy(body, f) THEN answer(400)
        ELSE IF rollNoExists = "throws" THEN answer(500)
        ELSE IF rollNoExists = "true" THEN answer(400)
        ELSE IF admissionNoExists = "throws" THEN answer(500)
        ELSE IF admissionNoExists = "true" THEN answer(400)
        ELSE [status |-> 0, students |-> Append(students, newStudent),
              body |-> <<newStudent>>]

\* PUT /api/students/:id up to the await of writeStudents
putBeforeWrite(students, id, body) ==
    LET index == findIndex(students, id) IN
    IF index = 0 THEN [status |-> 404, students |-> students]
    ELSE [status |-> 0,
          students |-> [students EXCEPT ![index] = mergeSpread(students[index], body, id)]]

\* DELETE /api/students/:id up to the await of writeStudents
deleteBeforeWrite(students, id) ==
    LET filteredStudents == filterOut(students, id) IN
    IF Len(students) = Len(filteredStudents)
    THEN [status |-> 404, students |-> students]
    ELSE [status |-> 0, students |-> filteredStudents]

\* variant: the array is written whatever was decided
afterWrite_WriteAnyway(file, p, done, writeOk) ==
    LET success == writeStudents(file, p.students, writeOk) IN
    IF p.status # 0
    THEN [status |-> p.status, file |-> success.file, wrote |-> FALSE]
    ELSE [status |-> IF success.ok THEN done ELSE 500, file |-> success.file,
          wrote |-> TRUE]

\* a handler from its read to its answer: p is what it decided before the
\* write, done the status of a write that succeeded
afterWrite(file, p, done, writeOk) ==
    IF p.status # 0
    THEN [status |-> p.status, file |-> file, wrote |-> FALSE]
    ELSE LET success == writeStudents(file, p.students, writeOk) IN
         [status |-> IF success.ok THEN done ELSE 500, file |-> success.file,
          wrote |-> TRUE]

\* GET /api/students
getStudents(file, readOk) ==
    [status |-> 200, body |-> readStudents(file, readOk)]

\* GET /api/students/:id
getStudentById(file, id, readOk) ==
    LET students == readStudents(file, readOk) IN
    IF findIndex(students, id) # 0 THEN [status |-> 200] ELSE [status |-> 404]

\* --------------------------------------------- StudentManager (methods)
\* variant: the catch block without this.storageMode = 'local'
loadStudents_KeepsMode(mode, ls, file, netOk) ==
    IF mode = "api" /\ netOk
    THEN [students |-> file, storageMode |-> "api"]
    ELSE [students |-> ls, storageMode |-> mode]

\* loadStudents / loadFromLocalStorage; netOk: the GET succeeded
loadStudents(mode, ls, file, netOk) ==
    IF mode = "api" /\ netOk
    THEN [students |-> file, storageMode |-> "api"]
    ELSE [students |-> ls, storageMode |-> "local"]

\* addStudentLocal: the collection afterwards (it is also what is saved)
addStudentLocal(students, student, now) ==
    Append(students, withId(student, toString(now)))

\* addStudent; netOk: the POST reached the server and was answered
addStudent(students, mode, ls, file, student, now, netOk) ==
    LET r == postStudents(file, student, now)
        local == addStudentLocal(students, student, now)
    IN  IF mode = "api" /\ netOk /\ r.status = 201
        THEN [students |-> Append(students, r.body[1]), storageMode |-> "api",
              localStorage |-> ls, serverFile |-> r.file, id |-> r.body[1].id]
        ELSE [students |-> local, storageMode |-> "local",
              localStorage |-> local,
              serverFile |-> IF mode = "api" /\ netOk THEN r.file ELSE file,
              id |-> toString(now)]

updateStudentMethod(students, id, updatedData) ==
    LET index == findIndex(students, id) IN
    IF index = 0 THEN [ok |-> FALSE, students |-> students]
    ELSE [ok |-> TRUE,
          students |-> [students EXCEPT ![index] =
                            mergeSpread(students[index], updatedData, id)]]

\* variant: no 'Student not found' check, so that splice(-1, 1) removes the
\* last record
deleteStudentMethod_NoCheck(students, id) ==
    LET index == findIndex(students, id) IN
    [ok |-> TRUE,
     students |-> IF index = 0 THEN SubSeq(students, 1, Len(students) - 1)
                  ELSE splice(students, index)]

deleteStudentMethod(students, id) ==
    LET index == findIndex(students, id) IN
    IF index = 0 THEN [ok |-> FALSE, students |-> students]
    ELSE [ok |-> TRUE, students |-> splice(students, index)]

\* variant: jsonData.students tested for truth only, not with Array.isArray
importData_NoArrayCheck(students, jsonData) ==
    IF jsonData.type = "null" THEN [ok |-> FALSE, students |-> students]
    ELSE IF "students" \in DOMAIN jsonData
    THEN [ok |-> TRUE,
          students |-> IF jsonData.students.type = "array"
                       THEN jsonData.students.items ELSE <<>>]
    ELSE [ok |-> FALSE, students |-> students]

\* importData: a payload is [type |-> "null"] or an object whose students
\* member, when present, is tagged with its JSON type
importData(students, jsonData) ==
    IF jsonData.type = "null" THEN [ok |-> FALSE, students |-> students]
    ELSE IF "students" \in DOMAIN jsonData /\ jsonData.students.type = "array"
    THEN [ok |-> TRUE, students |-> jsonData.students.items]
    ELSE [ok |-> FALSE, students |-> students]

ImportPayloads ==
    {[type |-> "null"],
     [type |-> "number"],
     [type |-> "object", version |-> "1.0"],
     [type |-> "object", students |-> [type |-> "object"]],
     [type |-> "object", students |-> [type |-> "string"]],
     [type |-> "object", students |-> [type |-> "null"]],
     [type |-> "object", students |-> [type |-> "array", items |-> <<>>]],
     [type |-> "object",
      students |-> [type |-> "array",
                    items |-> <<withId(Form(Ann, r1, x1), toString(1)),
                                withId(Form(Bob, R1, x2), toString(2))>>]]}

\* ------------------------------------------------------ AuthManager (pure)
admin == <<"a", "d", "m", "i", "n">>
teacher == <<"t", "e", "a", "c", "h", "e", "r">>
admin123 == <<"a", "d", "m", "i", "n", "1", "2", "3">>
teacher123 == <<"t", "e", "a", "c", "h", "e", "r", "1", "2", "3">>
atSchool == <<"@", "s", "c", "h", "o", "o", "l", ".", "c", "o", "m">>

\* the accounts loadUsers creates when localStorage holds no 'users'
defaultUsers ==
    << [id |-> <<"1">>, username |-> admin, password |-> admin123,
        role |-> "admin", name |-> <<"A", "d", "m", "i", "n">>,
        email |-> admin \o atSchool],
       [id |-> <<"2">>, username |-> teacher, password |-> teacher123,
        role |-> "teacher", name |-> <<"J", "o", "h", "n">>,
        email |-> teacher \o atSchool] >>

\* { ...user } with the password deleted
withoutPassword(user) == [f \in DOMAIN user \ {"password"} |-> user[f]]

\* login: the first account with this username and password
login(users, username, password) ==
    LET found == {i \in 1..Len(users) :
                     users[i].username = username /\ users[i].password = password}
    IN  IF found = {} THEN [success |-> FALSE, currentUser |-> <<>>]
        ELSE LET i == CHOOSE k \in found : \A j \in found : k <= j
             IN  [success |-> TRUE, currentUser |-> withoutPassword(users[i])]

\* this.currentUser?.id, this.currentUser?.name: <<>> stands for undefined
idOf(currentUser) == IF currentUser = <<>> THEN <<>> ELSE currentUser.id

nameOf(currentUser) ==
    IF currentUser = <<>> THEN <<"S", "y", "s", "t", "e", "m">> ELSE currentUser.name

\* addUser
addUser(users, currentUser, userData, now) ==
    IF \E i \in 1..Len(users) : users[i].username = userData.username
    THEN [success |-> FALSE, users |-> users]
    ELSE IF \E i \in 1..Len(users) : users[i].email = userData.email
    THEN [success |-> FALSE, users |-> users]
    ELSE LET newUser == [id |-> toString(now), username |-> userData.username,
                         password |-> userData.password, role |-> userData.role,
                         name |-> userData.name, email |-> userData.email,
                         createdAt |-> now, createdBy |-> nameOf(currentUser)]
         IN  [success |-> TRUE, users |-> Append(users, newUser)]

\* variant: without the 'Cannot delete your own account' check
deleteUser_NoOwnCheck(users, currentUser, userId) ==
    LET index == findIndex(users, userId) IN
    IF userId = <<"1">> THEN [success |-> FALSE, users |-> users]
    ELSE IF index = 0 THEN [success |-> FALSE, users |-> users]
    ELSE [success |-> TRUE, users |-> splice(users, index)]

\* deleteUser
deleteUser(users, currentUser, userId) ==
    LET index == findIndex(users, userId) IN
    IF userId = <<"1">> THEN [success |-> FALSE, users |-> users]
    ELSE IF userId = idOf(currentUser) THEN [success |-> FALSE, users |-> users]
    ELSE IF index = 0 THEN [success |-> FALSE, users |-> users]
    ELSE [success |-> TRUE, users |-> splice(users, index)]

isUsernameUnique(users, username, excludeId) ==
    ~\E i \in 1..Len(users) :
        /\ toLowerCase(users[i].username) = toLowerCase(username)
        /\ users[i].id # excludeId

isEmailUnique(users, email, excludeId) ==
    ~\E i \in 1..Len(users) :
        /\ toLowerCase(users[i].email) = toLowerCase(email)
        /\ users[i].id # excludeId

\* the role-gated buttons the page shows (TRUE) or hides
Buttons ==
    {"addStudentBtn", "deleteStudentBtn", "exportDataBtn", "importDataBtn",
     "manageUsersBtn"}

\* the buttons as the page's markup and stylesheet first display them
InitialControls == [b \in Buttons |-> b # "manageUsersBtn"]

\* updateUIForRole, for the buttons above; the other buttons it sets
\* (attendance, classes) are not tracked
updateUIForRole(controls, user) ==
    IF user = <<>> THEN controls
    ELSE LET c1 == IF user.role = "admin"
                   THEN [controls EXCEPT !.manageUsersBtn = TRUE]
                   ELSE controls
         IN  IF user.role = "teacher"
             THEN [c1 EXCEPT !.addStudentBtn = FALSE, !.deleteStudentBtn = FALSE,
                             !.exportDataBtn = FALSE, !.importDataBtn = FALSE]
             ELSE IF user.role = "student"
             THEN [c1 EXCEPT !.addStudentBtn = FALSE, !.deleteStudentBtn = FALSE,
                             !.exportDataBtn = FALSE, !.importDataBtn = FALSE,
                             !.manageUsersBtn = FALSE]
             ELSE c1

\* ------------------------------------------------ AttendanceManager (pure)
\* variant: the record is pushed without removing the one it replaces
markAttendance_NoFilter(attendance, studentId, date, status, markedBy, now) ==
    Append(attendance,
           [id |-> toString(now), studentId |-> studentId, date |-> date,
            status |-> status, markedBy |-> markedBy, markedAt |-> now])

\* markAttendance: the list afterwards
markAttendance(attendance, studentId, date, status, markedBy, now) ==
    LET record == [id |-> toString(now), studentId |-> studentId, date |-> date,
                   status |-> status, markedBy |-> markedBy, markedAt |-> now]
        other(a) == ~(a.studentId = studentId /\ a.date = date)
    IN  Append(SelectSeq(attendance, other), record)

\* ----------------------------------------------------- ClassManager (pure)
\* addClass: the list afterwards
addClass(classes, classData, now) ==
    Append(classes,
           [id |-> toString(now), className |-> classData.className,
            classSection |-> classData.classSection, students |-> <<>>,
            createdAt |-> now])

\* getClass as an index: 0 when no class has the id
getClass(classes, classId) == findIndex(classes, classId)

\* array.includes(x)
includesId(array, x) == \E i \in 1..Len(array) : array[i] = x

addStudentToClass(classes, classId, studentId) ==
    LET c == getClass(classes, classId) IN
    IF c # 0 /\ ~includesId(classes[c].students, studentId)
    THEN [ok |-> TRUE,
          classes |-> [classes EXCEPT ![c].students = Append(@, studentId)]]
    ELSE [ok |-> FALSE, classes |-> classes]

removeStudentFromClass(classes, classId, studentId) ==
    LET c == getClass(classes, classId)
        other(id) == id # studentId
    IN  IF c # 0
        THEN [ok |-> TRUE,
              classes |-> [classes EXCEPT ![c].students = SelectSeq(@, other)]]
        ELSE [ok |-> FALSE, classes |-> classes]

deleteClass(classes, classId) ==
    filterOut(classes, classId)

\* renderClassStudents: the students of the class that getStudent finds
renderClassStudents(classObj, students) ==
    LET found(id) == getStudent(students, id) # <<>> IN
    SelectSeq(classObj.students, found)

\* showClassesList: the student count on the card of a class
shownCount(classObj) == Len(classObj.students)

\* ------------------------------------------------------------------ state
VARIABLES
    students,                  \* StudentManager.students
    storageMode,               \* StudentManager.storageMode
    localStorage,              \* localStorage item 'students', parsed
    serverFile,                \* students-data.json, parsed
    clock,                     \* Date.now()
    view,                      \* the view carrying class 'active'
    currentEditingStudentId,
    currentProfileStudentId,
    currentFilters,            \* the filter and sort state of the home view
    studentsList,              \* the records the element 'studentsList' shows
    last,                      \* history: the step just taken
    deleted,                   \* history: ids deleted through the page
    inflight,                  \* server: POST handlers between read and write
    users,                     \* AuthManager.users
    currentUser,               \* AuthManager.currentUser
    controls,                  \* which role-gated buttons are displayed
    attendance,                \* AttendanceManager.attendance
    classes                    \* ClassManager.classes

vars == <<students, storageMode, localStorage, serverFile, clock, view,
          currentEditingStudentId, currentProfileStudentId, currentFilters,
          studentsList, last, deleted, inflight, users, currentUser, controls,
          attendance, classes>>

\* what the student store, its pages and the atomic server handlers leave alone
OtherVars == <<inflight, users, currentUser, controls, attendance, classes>>

\* currentFilters as declared, and as clearSearch and clearFiltersBtn reset it
NoFilters == [class |-> <<>>, section |-> <<>>, sortBy |-> "", searchTerm |-> <<>>]

FilterVars == <<currentFilters, studentsList>>

Step(op, res, id) == [op |-> op, res |-> res, id |-> id]

\* the managers as constructed on a first visit, nobody logged in, no
\* request in flight
OtherInit ==
    /\ inflight = <<>>
    /\ users = defaultUsers
    /\ currentUser = Null
    /\ controls = InitialControls
    /\ attendance = <<>>
    /\ classes = <<>>

Init ==
    /\ students = <<>>
    /\ storageMode \in {"local", "api"}
    /\ localStorage = <<>>
    /\ serverFile = <<>>
    /\ clock = 1
    /\ view = "homeView"
    /\ currentEditingStudentId = Null
    /\ currentProfileStudentId = Null
    /\ currentFilters = NoFilters
    /\ studentsList = <<>>
    /\ last = Step("nav", "ok", Null)
    /\ deleted = {}
    /\ OtherInit

Room(c) == Len(c) < MaxStudents

\* --------------------------------------------------------------- the clock
Tick ==
    /\ clock < MaxClock
    /\ clock' = clock + 1
    /\ last' = Step("nav", "ok", Null)
    /\ UNCHANGED <<students, storageMode, localStorage, serverFile, view,
                   currentEditingStudentId, currentProfileStudentId, deleted,
                   FilterVars>>
    /\ UNCHANGED OtherVars

\* ------------------------------------------- requests of other API clients
OtherPosts == {Form(Bob, R1, x2), Form(Ann, r2, X1)}

ApiPost(body) ==
    /\ storageMode = "api"
    /\ Room(serverFile)
    /\ LET r == postStudents(serverFile, body, clock) IN
       /\ serverFile' = r.file
       /\ last' = Step("POST", IF r.status = 201 THEN "ok" ELSE "rejected",
                       IF r.status = 201 THEN r.body[1].id ELSE Null)
    /\ UNCHANGED <<students, storageMode, localStorage, clock, view,
                   currentEditingStudentId, currentProfileStudentId, deleted,
                   FilterVars>>
    /\ UNCHANGED OtherVars

\* ------------------------------------------------------- the page: handlers
\* every handler that ends in renderStudentsList reloads the collection;
\* netLoad: the GET of that reload succeeded (it matters in api mode only)

\* applyFiltersAndSort, which a control calls once it has set currentFilters:
\* the list shows the filtered copy of the collection as it was, and
\* renderStudentsList reloads the collection
applyFiltersAndSort(netLoad) ==
    /\ view = "homeView"
    /\ studentsList' = filterAndSortStudents(students, currentFilters').filtered
    /\ LET l == loadStudents(storageMode, localStorage, serverFile, netLoad) IN
       /\ students' = l.students
       /\ storageMode' = l.storageMode
    /\ last' = Step("filter", "ok", Null)
    /\ UNCHANGED <<localStorage, serverFile, clock, view,
                   currentEditingStudentId, currentProfileStudentId, deleted>>
    /\ UNCHANGED OtherVars

\* searchInput input
SearchInput(value, netLoad) ==
    /\ currentFilters' = [currentFilters EXCEPT !.searchTerm = trim(value)]
    /\ applyFiltersAndSort(netLoad)

\* filterClass change
FilterClassChange(value, netLoad) ==
    /\ currentFilters' = [currentFilters EXCEPT !.class = value]
    /\ applyFiltersAndSort(netLoad)

\* filterSection change
FilterSectionChange(value, netLoad) ==
    /\ currentFilters' = [currentFilters EXCEPT !.section = value]
    /\ applyFiltersAndSort(netLoad)

\* sortBy change
SortByChange(value, netLoad) ==
    /\ currentFilters' = [currentFilters EXCEPT !.sortBy = value]
    /\ applyFiltersAndSort(netLoad)

\* clearFiltersBtn click
ClearFilters(netLoad) ==
    /\ currentFilters' = NoFilters
    /\ applyFiltersAndSort(netLoad)

\* addStudentBtn click
ClickAddStudent ==
    /\ view = "homeView"
    /\ view' = "addStudentView"
    /\ last' = Step("nav", "ok", Null)
    /\ UNCHANGED <<students, storageMode, localStorage, serverFile, clock,
                   currentEditingStudentId, currentProfileStudentId, deleted,
                   FilterVars>>
    /\ UNCHANGED OtherVars

\* backFromAddBtn / cancelBtn / backFromProfileBtn click: showView, clearSearch
BackToHome ==
    /\ view \in {"addStudentView", "profileView"}
    /\ view' = "homeView"
    /\ currentFilters' = NoFilters
    /\ last' = Step("nav", "ok", Null)
    /\ UNCHANGED <<students, storageMode, localStorage, serverFile, clock,
                   currentEditingStudentId, currentProfileStudentId, deleted,
                   studentsList>>
    /\ UNCHANGED OtherVars

\* backFromEditBtn / cancelEditBtn click: resetEditStudentForm, showView,
\* clearSearch
BackFromEdit ==
    /\ view = "editStudentView"
    /\ currentEditingStudentId' = Null
    /\ view' = "homeView"
    /\ currentFilters' = NoFilters
    /\ last' = Step("nav", "ok", Null)
    /\ UNCHANGED <<students, storageMode, localStorage, serverFile, clock,
                   currentProfileStudentId, deleted, studentsList>>
    /\ UNCHANGED OtherVars

\* a student card is clicked
showStudentProfile(studentId) ==
    /\ view = "homeView"
    /\ getStudent(students, studentId) # <<>>
    /\ currentProfileStudentId' = studentId
    /\ view' = "profileView"
    /\ last' = Step("nav", "ok", studentId)
    /\ UNCHANGED <<students, storageMode, localStorage, serverFile, clock,
                   currentEditingStudentId, deleted, FilterVars>>
    /\ UNCHANGED OtherVars

\* the edit button of a student card is clicked
showEditStudent(studentId) ==
    /\ view = "homeView"
    /\ getStudent(students, studentId) # <<>>
    /\ currentEditingStudentId' = studentId
    /\ view' = "editStudentView"
    /\ last' = Step("nav", "ok", studentId)
    /\ UNCHANGED <<students, storageMode, localStorage, serverFile, clock,
                   currentProfileStudentId, deleted, FilterVars>>
    /\ UNCHANGED OtherVars

ErrorKind(errs) ==
    IF \E e \in errs : e[2] = "taken" THEN "taken" ELSE "invalid"

\* add form submit, then saveStudent
AddFormSubmit(raw, netPost, netLoad) ==
    /\ view = "addStudentView"
    /\ LET errs == formErrors(students, raw, Null) IN
       IF errs # {}
       THEN /\ last' = Step("create", ErrorKind(errs), Null)
            /\ UNCHANGED <<students, storageMode, localStorage, serverFile,
                           view, studentsList>>
       ELSE /\ Room(students) /\ Room(localStorage) /\ Room(serverFile)
            /\ LET a == addStudent(students, storageMode, localStorage,
                                   serverFile, formData(raw), clock, netPost)
                   l == loadStudents(a.storageMode, a.localStorage,
                                     a.serverFile, netLoad)
               IN  /\ students' = l.students
                   /\ studentsList' = l.students
                   /\ storageMode' = l.storageMode
                   /\ localStorage' = a.localStorage
                   /\ serverFile' = a.serverFile
                   /\ last' = Step("create", "ok", a.id)
            /\ view' = "homeView"
    /\ UNCHANGED <<clock, currentEditingStudentId, currentProfileStudentId,
                   deleted, currentFilters>>
    /\ UNCHANGED OtherVars

\* edit form submit, then updateStudent (the page function)
EditFormSubmit(raw, netLoad) ==
    /\ view = "editStudentView"
    /\ LET errs == formErrors(students, raw, currentEditingStudentId)
           u == updateStudentMethod(students, currentEditingStudentId,
                                    formData(raw))
           l == loadStudents(storageMode, u.students, serverFile, netLoad)
       IN  IF errs # {}
           THEN /\ last' = Step("update", ErrorKind(errs), currentEditingStudentId)
                /\ UNCHANGED <<students, storageMode, localStorage, view,
                               currentEditingStudentId, studentsList>>
           ELSE IF ~u.ok
           THEN /\ last' = Step("update", "notFound", currentEditingStudentId)
                /\ UNCHANGED <<students, storageMode, localStorage, view,
                               currentEditingStudentId, studentsList>>
           ELSE /\ localStorage' = u.students
                /\ students' = l.students
                /\ studentsList' = l.students
                /\ storageMode' = l.storageMode
                /\ currentEditingStudentId' = Null
                /\ view' = "homeView"
                /\ last' = Step("update", "ok", currentEditingStudentId)
    /\ UNCHANGED <<serverFile, clock, currentProfileStudentId, deleted,
                   currentFilters>>
    /\ UNCHANGED OtherVars

\* deleteStudentBtn click, confirmed, then deleteStudent (the page function)
ClickDeleteStudent(netLoad) ==
    /\ view = "profileView"
    /\ currentProfileStudentId # Null
    /\ getStudent(students, currentProfileStudentId) # <<>>
    /\ LET d == deleteStudentMethod(students, currentProfileStudentId)
           l == loadStudents(storageMode, d.students, serverFile, netLoad)
       IN  /\ localStorage' = d.students
           /\ students' = l.students
           /\ studentsList' = l.students
           /\ storageMode' = l.storageMode
    /\ deleted' = deleted \cup {currentProfileStudentId}
    /\ last' = Step("delete", "ok", currentProfileStudentId)
    /\ currentProfileStudentId' = Null
    /\ view' = "homeView"
    /\ UNCHANGED <<serverFile, clock, currentEditingStudentId, currentFilters>>
    /\ UNCHANGED OtherVars

\* importFileInput change: importData, then renderStudentsList on success
ImportFile(jsonData, netLoad) ==
    /\ view = "homeView"
    /\ LET m == importData(students, jsonData)
           l == loadStudents(storageMode, m.students, serverFile, netLoad)
       IN  IF m.ok
           THEN /\ localStorage' = m.students
                /\ students' = l.students
                /\ studentsList' = l.students
                /\ storageMode' = l.storageMode
                /\ last' = Step("import", "ok", Null)
           ELSE /\ last' = Step("import", "invalid", Null)
                /\ UNCHANGED <<students, storageMode, localStorage,
                               studentsList>>
    /\ UNCHANGED <<serverFile, clock, view, currentEditingStudentId,
                   currentProfileStudentId, deleted, currentFilters>>
    /\ UNCHANGED OtherVars

\* the outcomes of a request: none is issued in local mode
Net == IF storageMode = "api" THEN BOOLEAN ELSE {TRUE}

\* the page without the import control
NextLocal ==
    \/ Tick
    \/ \E netLoad \in Net : ClearFilters(netLoad)
    \/ ClickAddStudent
    \/ BackToHome
    \/ BackFromEdit
    \/ \E id \in Ids : showStudentProfile(id)
    \/ \E id \in Ids : showEditStudent(id)
    \/ \E raw \in RawForms, netPost \in Net, netLoad \in Net :
          AddFormSubmit(raw, netPost, netLoad)
    \/ \E raw \in RawForms, netLoad \in Net : EditFormSubmit(raw, netLoad)
    \/ \E netLoad \in Net : ClickDeleteStudent(netLoad)

\* the build as shipped: STORAGE_MODE = 'local'
InitLocal == Init /\ storageMode = "local"

SpecLocal == InitLocal /\ [][NextLocal]_vars

\* the build as shipped, import control included
Next ==
    \/ NextLocal
    \/ \E jsonData \in ImportPayloads, netLoad \in Net :
          ImportFile(jsonData, netLoad)

Spec == InitLocal /\ [][Next]_vars

\* the build with STORAGE_MODE = 'api', next to other clients of the server
InitApi == Init /\ storageMode = "api"

NextApi ==
    \/ NextLocal
    \/ \E body \in OtherPosts : ApiPost(body)

SpecApi == InitApi /\ [][NextApi]_vars

\* the home view with its import control, in either build, next to other
\* clients of the server
NextImport ==
    \/ Tick
    \/ \E netLoad \in Net : ClearFilters(netLoad)
    \/ \E jsonData \in ImportPayloads, netLoad \in Net :
          ImportFile(jsonData, netLoad)
    \/ \E body \in OtherPosts : ApiPost(body)

SpecImport == Init /\ [][NextImport]_vars

\* ------------------------------- StudentManager and the API, called directly
\* an id no create of the session assigns
UnknownId == toString(MaxClock + 1)

CallIds == Ids \cup {UnknownId}

\* updatedData of updateStudent, req.body of PUT: partial, full, carrying an id
UpdateDatas ==
    {[firstName |-> Bob],
     [rollNo |-> R1, id |-> UnknownId],
     Form(Ann, r2, X1)}

\* the student argument of addStudent
StoreForms == {Form(Ann, r1, x1), Form(Bob, R1, x2)}

UIvars == <<view, currentEditingStudentId, currentProfileStudentId>>

CallLoadStudents(netOk) ==
    /\ LET l == loadStudents(storageMode, localStorage, serverFile, netOk) IN
       /\ students' = l.students
       /\ storageMode' = l.storageMode
    /\ last' = Step("load", "ok", Null)
    /\ UNCHANGED <<localStorage, serverFile, clock, deleted, UIvars, FilterVars>>
    /\ UNCHANGED OtherVars

CallAddStudent(student, netOk) ==
    /\ Room(students) /\ Room(localStorage) /\ Room(serverFile)
    /\ LET a == addStudent(students, storageMode, localStorage, serverFile,
                           student, clock, netOk)
       IN  /\ students' = a.students
           /\ storageMode' = a.storageMode
           /\ localStorage' = a.localStorage
           /\ serverFile' = a.serverFile
           /\ last' = Step("create", "ok", a.id)
    /\ UNCHANGED <<clock, deleted, UIvars, FilterVars>>
    /\ UNCHANGED OtherVars

CallUpdateStudent(id, updatedData) ==
    /\ LET u == updateStudentMethod(students, id, updatedData) IN
       IF u.ok
       THEN /\ students' = u.students
            /\ localStorage' = u.students
            /\ last' = Step("update", "ok", id)
       ELSE /\ last' = Step("update", "notFound", id)
            /\ UNCHANGED <<students, localStorage>>
    /\ UNCHANGED <<storageMode, serverFile, clock, deleted, UIvars, FilterVars>>
    /\ UNCHANGED OtherVars

CallDeleteStudent(id) ==
    /\ LET d == deleteStudentMethod(students, id) IN
       IF d.ok
       THEN /\ students' = d.students
            /\ localStorage' = d.students
            /\ last' = Step("delete", "ok", id)
       ELSE /\ last' = Step("delete", "notFound", id)
            /\ UNCHANGED <<students, localStorage>>
    /\ UNCHANGED <<storageMode, serverFile, clock, deleted, UIvars, FilterVars>>
    /\ UNCHANGED OtherVars

ApiPut(id, body) ==
    /\ storageMode = "api"
    /\ LET r == putStudent(serverFile, id, body) IN
       /\ serverFile' = r.file
       /\ last' = Step("PUT", IF r.status = 200 THEN "ok" ELSE "notFound", id)
    /\ UNCHANGED <<students, storageMode, localStorage, clock, deleted, UIvars, FilterVars>>
    /\ UNCHANGED OtherVars

ApiDelete(id) ==
    /\ storageMode = "api"
    /\ LET r == deleteStudentRoute(serverFile, id) IN
       /\ serverFile' = r.file
       /\ last' = Step("DELETE", IF r.status = 200 THEN "ok" ELSE "notFound", id)
    /\ UNCHANGED <<students, storageMode, localStorage, clock, deleted, UIvars, FilterVars>>
    /\ UNCHANGED OtherVars

NextStore ==
    \/ Tick
    \/ \E netOk \in Net : CallLoadStudents(netOk)
    \/ \E student \in StoreForms, netOk \in Net : CallAddStudent(student, netOk)
    \/ \E id \in CallIds, updatedData \in UpdateDatas :
          CallUpdateStudent(id, updatedData)
    \/ \E id \in CallIds : CallDeleteStudent(id)

SpecStore == Init /\ [][NextStore]_vars

\* the server alone, answering the requests of any client
NextServer ==
    \/ Tick
    \/ \E body \in CleanForms : ApiPost(body)
    \/ \E id \in CallIds, body \in UpdateDatas : ApiPut(id, body)
    \/ \E id \in CallIds : ApiDelete(id)

SpecServer == InitApi /\ [][NextServer]_vars

\* -------------------------------------------- the home view's filter controls
Record(first, family, roll, adm, class, section, id) ==
    withId([firstName |-> first, lastName |-> family, rollNo |-> roll,
            admissionNo |-> adm, class |-> class, section |-> section,
            dob |-> OldEnough, picture |-> Null], id)

\* collections earlier sessions left in localStorage
StoredCollections ==
    {<<Record(Ann, Lee, <<"7">>, x1, <<"1", "0">>, <<"A">>, <<"1">>),
       Record(Bob, Ann, <<"8">>, x2, <<"9">>, <<"A">>, <<"2">>)>>,
     <<Record(Bob, Lee, <<"2">>, <<"m", "3">>, <<"1", "0">>, <<"A">>, <<"3">>),
       Record(Ann, Lee, <<"1", "0">>, <<"m", "1">>, <<"1", "0">>, <<"B">>, <<"1">>),
       Record(Lee, Bob, <<"1">>, <<"m", "2">>, <<"9">>, <<"A">>, <<"2">>)>>,
     <<Record(Ann, Lee, <<"r", "1", "0">>, X1, <<"9">>, <<"B">>, <<"1", "0">>),
       Record(Ann, Lee, r2, x2, <<"1", "0">>, <<"B">>, <<"9">>),
       Record(Bob, Bob, R1, <<"n", "1">>, <<"9">>, <<"A">>, <<"2">>)>>}

\* what a user types into the search box
SearchInputs ==
    {<<>>, <<" ">>, <<"a", "n", "n">>, <<" ", "a", "n", "n", " ">>, <<"A", "n">>,
     <<"1">>, <<"z", "z">>}

ClassOptions == {<<>>, <<"1", "0">>, <<"9">>}

SectionOptions == {<<>>, <<"A">>, <<"B">>}

\* the keys of the sort switch, and the two keys it does not know
SortOptions ==
    {"", "name-asc", "name-desc", "roll-asc", "roll-desc", "date-newest",
     "date-oldest", "created-newest", "created-oldest"}

InitFilter ==
    /\ localStorage \in StoredCollections
    /\ students = localStorage
    /\ studentsList = students
    /\ storageMode = "local"
    /\ serverFile = <<>>
    /\ clock = 1
    /\ view = "homeView"
    /\ currentEditingStudentId = Null
    /\ currentProfileStudentId = Null
    /\ currentFilters = NoFilters
    /\ last = Step("nav", "ok", Null)
    /\ deleted = {}
    /\ OtherInit

NextFilter ==
    \/ \E value \in SearchInputs, netLoad \in Net : SearchInput(value, netLoad)
    \/ \E value \in ClassOptions, netLoad \in Net : FilterClassChange(value, netLoad)
    \/ \E value \in SectionOptions, netLoad \in Net :
          FilterSectionChange(value, netLoad)
    \/ \E value \in SortOptions, netLoad \in Net : SortByChange(value, netLoad)
    \/ \E netLoad \in Net : ClearFilters(netLoad)

SpecFilter == InitFilter /\ [][NextFilter]_vars

\* ------------------------------------------------- the add and edit forms
NextForm ==
    \/ Tick
    \/ ClickAddStudent
    \/ BackToHome
    \/ BackFromEdit
    \/ \E id \in Ids : showEditStudent(id)
    \/ \E raw \in DobForms, netPost \in Net, netLoad \in Net :
          AddFormSubmit(raw, netPost, netLoad)
    \/ \E raw \in DobForms, netLoad \in Net : EditFormSubmit(raw, netLoad)

SpecForm == InitLocal /\ [][NextForm]_vars

\* ------------------------------------- the server's routes, with file faults
\* what a served request leaves in the history
Served(op, status, id, body, readOk, read, before, wrote, writeOk) ==
    [op |-> op, res |-> status, id |-> id, body |-> body, readOk |-> readOk,
     read |-> read, before |-> before, wrote |-> wrote, writeOk |-> writeOk]

ClientVars == <<students, storageMode, localStorage, clock, deleted, UIvars,
                FilterVars>>

\* request bodies of any API client
PostBodies ==
    {Form(Ann, r1, x1), Form(Bob, R1, x2), Form(Ann, Seven, X1),
     [Form(Bob, r2, x2) EXCEPT !.lastName = <<>>]}

PutBodies == {[firstName |-> Bob], [rollNo |-> R1, id |-> UnknownId]}

ServeGetAll(readOk) ==
    /\ LET r == getStudents(serverFile, readOk) IN
       last' = Served("GET /api/students", r.status, Null, r.body, readOk,
                      readStudents(serverFile, readOk), serverFile, FALSE, TRUE)
    /\ UNCHANGED <<serverFile, ClientVars>>
    /\ UNCHANGED OtherVars

ServeGetOne(id, readOk) ==
    /\ LET r == getStudentById(serverFile, id, readOk) IN
       last' = Served("GET /api/students/:id", r.status, id, <<>>, readOk,
                      readStudents(serverFile, readOk), serverFile, FALSE, TRUE)
    /\ UNCHANGED <<serverFile, ClientVars>>
    /\ UNCHANGED OtherVars

ServePost(body, readOk, writeOk) ==
    /\ Room(serverFile)
    /\ LET read == readStudents(serverFile, readOk)
           r == afterWrite(serverFile, postBeforeWrite(read, body, clock), 201,
                           writeOk)
       IN  /\ serverFile' = r.file
           /\ last' = Served("POST /api/students", r.status, Null, body,
                             readOk, read, serverFile, r.wrote, writeOk)
    /\ UNCHANGED ClientVars
    /\ UNCHANGED OtherVars

ServePut(id, body, readOk, writeOk) ==
    /\ LET read == readStudents(serverFile, readOk)
           r == afterWrite(serverFile, putBeforeWrite(read, id, body), 200,
                           writeOk)
       IN  /\ serverFile' = r.file
           /\ last' = Served("PUT /api/students/:id", r.status, id, body,
                             readOk, read, serverFile, r.wrote, writeOk)
    /\ UNCHANGED ClientVars
    /\ UNCHANGED OtherVars

ServeDelete(id, readOk, writeOk) ==
    /\ LET read == readStudents(serverFile, readOk)
           r == afterWrite(serverFile, deleteBeforeWrite(read, id), 200, writeOk)
       IN  /\ serverFile' = r.file
           /\ last' = Served("DELETE /api/students/:id", r.status, id, <<>>,
                             readOk, read, serverFile, r.wrote, writeOk)
    /\ UNCHANGED ClientVars
    /\ UNCHANGED OtherVars

NextRoutes ==
    \/ Tick
    \/ \E readOk \in BOOLEAN : ServeGetAll(readOk)
    \/ \E id \in CallIds, readOk \in BOOLEAN : ServeGetOne(id, readOk)
    \/ \E body \in PostBodies, readOk \in BOOLEAN, writeOk \in BOOLEAN :
          ServePost(body, readOk, writeOk)
    \/ \E id \in CallIds, body \in PutBodies, readOk \in BOOLEAN,
          writeOk \in BOOLEAN : ServePut(id, body, readOk, writeOk)
    \/ \E id \in CallIds, readOk \in BOOLEAN, writeOk \in BOOLEAN :
          ServeDelete(id, readOk, writeOk)

SpecRoutes == InitApi /\ [][NextRoutes]_vars

\* ---------------------------- StudentManager when localStorage.setItem throws
\* saveToLocalStorage; setItemOk: setItem did not throw
saveToLocalStorage(this, ls, setItemOk) ==
    IF setItemOk THEN this ELSE ls

\* the outcome of a method that has reached saveToLocalStorage
Outcome(setItemOk) == IF setItemOk THEN "ok" ELSE "throws"

ServerVars == <<storageMode, serverFile, clock, deleted, UIvars, FilterVars>>

SaveAddStudent(student, setItemOk) ==
    /\ storageMode = "local"
    /\ Room(students)
    /\ students' = addStudentLocal(students, student, clock)
    /\ localStorage' = saveToLocalStorage(students', localStorage, setItemOk)
    /\ last' = Step("create", Outcome(setItemOk), toString(clock))
    /\ UNCHANGED ServerVars
    /\ UNCHANGED OtherVars

SaveUpdateStudent(id, updatedData, setItemOk) ==
    /\ storageMode = "local"
    /\ LET u == updateStudentMethod(students, id, updatedData) IN
       IF u.ok
       THEN /\ students' = u.students
            /\ localStorage' = saveToLocalStorage(students', localStorage, setItemOk)
            /\ last' = Step("update", Outcome(setItemOk), id)
       ELSE /\ last' = Step("update", "notFound", id)
            /\ UNCHANGED <<students, localStorage>>
    /\ UNCHANGED ServerVars
    /\ UNCHANGED OtherVars

SaveDeleteStudent(id, setItemOk) ==
    /\ storageMode = "local"
    /\ LET d == deleteStudentMethod(students, id) IN
       IF d.ok
       THEN /\ students' = d.students
            /\ localStorage' = saveToLocalStorage(students', localStorage, setItemOk)
            /\ last' = Step("delete", Outcome(setItemOk), id)
       ELSE /\ last' = Step("delete", "notFound", id)
            /\ UNCHANGED <<students, localStorage>>
    /\ UNCHANGED ServerVars
    /\ UNCHANGED OtherVars

\* importData: the exception of setItem is caught and false is returned
SaveImportData(jsonData, setItemOk) ==
    /\ storageMode = "local"
    /\ LET i == importData(students, jsonData) IN
       IF i.ok
       THEN /\ students' = i.students
            /\ localStorage' = saveToLocalStorage(students', localStorage, setItemOk)
            /\ last' = Step("import", Outcome(setItemOk), Null)
       ELSE /\ last' = Step("import", "invalid", Null)
            /\ UNCHANGED <<students, localStorage>>
    /\ UNCHANGED ServerVars
    /\ UNCHANGED OtherVars

SaveUpdates == {[firstName |-> Bob]}

SavePayloads ==
    {[type |-> "object", version |-> "1.0"],
     [type |-> "object",
      students |-> [type |-> "array",
                    items |-> <<withId(Form(Bob, R1, x2), toString(2))>>]]}

NextSave ==
    \/ Tick
    \/ \E setItemOk \in BOOLEAN : SaveAddStudent(Form(Ann, r1, x1), setItemOk)
    \/ \E id \in CallIds, updatedData \in SaveUpdates, setItemOk \in BOOLEAN :
          SaveUpdateStudent(id, updatedData, setItemOk)
    \/ \E id \in CallIds, setItemOk \in BOOLEAN : SaveDeleteStudent(id, setItemOk)
    \/ \E jsonData \in SavePayloads, setItemOk \in BOOLEAN :
          SaveImportData(jsonData, setItemOk)

SpecSave == InitLocal /\ [][NextSave]_vars

\* ---------------------- the server's POST handler, interleaved at its awaits
\* how many handlers may be between their read and their write at once
MaxInFlight == 2

ConcurrentPosts == {Form(Ann, r1, x1), Form(Bob, R1, x2), Form(Bob, r2, x2)}

\* requests that are answered are forgotten once no request is pending
Pending == IF \A i \in 1..Len(inflight) : inflight[i].status # 0
           THEN <<>> ELSE inflight

\* a POST arrives; readStudents resolves and the handler runs up to its
\* await of writeStudents, where it answers 400 or is left pending
PostRead(body, readOk) ==
    /\ Room(serverFile)
    /\ Len(Pending) < MaxInFlight
    /\ LET read == readStudents(serverFile, readOk)
           p == postBeforeWrite(read, body, clock)
       IN  /\ inflight' = IF p.status # 0 THEN inflight
                          ELSE Append(Pending,
                                      [body |-> body, students |-> p.students,
                                       created |-> p.body[1], status |-> 0])
           /\ last' = Served("POST /api/students", p.status, Null, body, readOk,
                             read, serverFile, FALSE, TRUE)
    /\ UNCHANGED <<serverFile, ClientVars>>
    /\ UNCHANGED <<users, currentUser, controls, attendance, classes>>

\* writeStudents of a pending POST resolves and the handler answers
PostWrite(i, writeOk) ==
    /\ i \in 1..Len(inflight)
    /\ inflight[i].status = 0
    /\ LET success == writeStudents(serverFile, inflight[i].students, writeOk) IN
       /\ serverFile' = success.file
       /\ inflight' = [inflight EXCEPT ![i].status = IF success.ok THEN 201 ELSE 500]
       /\ last' = Served("POST /api/students", inflight'[i].status,
                         inflight[i].created.id, inflight[i].body, TRUE,
                         serverFile, serverFile, TRUE, writeOk)
    /\ UNCHANGED ClientVars
    /\ UNCHANGED <<users, currentUser, controls, attendance, classes>>

NextInFlight ==
    \/ Tick
    \/ \E body \in ConcurrentPosts, readOk \in BOOLEAN : PostRead(body, readOk)
    \/ \E i \in 1..MaxInFlight, writeOk \in BOOLEAN : PostWrite(i, writeOk)

SpecInFlight == InitApi /\ [][NextInFlight]_vars

\* --------------------------------------------------- logins and user accounts
MaxUsers == 4

bob == <<"b", "o", "b">>
bob123 == <<"b", "o", "b", "1", "2", "3">>
Upper(name) == <<IF Head(name) = "a" THEN "A" ELSE "B">> \o Tail(name)

\* userData of addUser: a student, the same names with a capital first
\* letter, and the default admin's own username and email
UserDatas ==
    {[username |-> bob, password |-> bob123, role |-> "student", name |-> bob,
      email |-> bob \o atSchool],
     [username |-> Upper(admin), password |-> bob123, role |-> "student",
      name |-> bob, email |-> Upper(bob) \o atSchool],
     [username |-> admin, password |-> bob123, role |-> "teacher", name |-> bob,
      email |-> admin \o atSchool]}

\* what is typed into the login form
LoginNames == {admin, teacher, bob, admin \o <<" ">>}

Passwords == {admin123, teacher123, bob123}

\* Date.now() lies far above the ids '1' and '2' of the default accounts
FirstUserClock == 3

UserIds == {toString(n) : n \in 1..(FirstUserClock + MaxClock)}

StudentVars == <<students, storageMode, localStorage, serverFile, deleted,
                 currentEditingStudentId, currentProfileStudentId,
                 currentFilters, studentsList>>

InitAuth ==
    /\ students = <<>>
    /\ storageMode = "local"
    /\ localStorage = <<>>
    /\ serverFile = <<>>
    /\ clock = FirstUserClock
    /\ view = "loginView"
    /\ currentEditingStudentId = Null
    /\ currentProfileStudentId = Null
    /\ currentFilters = NoFilters
    /\ studentsList = <<>>
    /\ last = Step("nav", "ok", Null)
    /\ deleted = {}
    /\ OtherInit

TickAuth ==
    /\ clock < FirstUserClock + MaxClock - 1
    /\ clock' = clock + 1
    /\ last' = Step("nav", "ok", Null)
    /\ UNCHANGED <<StudentVars, view, OtherVars>>

\* loginForm submit
LoginSubmit(username, password, netLoad) ==
    /\ view = "loginView"
    /\ LET result == login(users, trim(username), password)
           l == loadStudents(storageMode, localStorage, serverFile, netLoad)
       IN  IF result.success
           THEN /\ currentUser' = result.currentUser
                /\ view' = "homeView"
                /\ students' = l.students
                /\ studentsList' = l.students
                /\ storageMode' = l.storageMode
                /\ controls' = updateUIForRole(controls, currentUser')
                /\ last' = Step("login", "ok", currentUser'.id)
           ELSE /\ last' = Step("login", "invalid", Null)
                /\ UNCHANGED <<currentUser, view, students, studentsList,
                               storageMode, controls>>
    /\ UNCHANGED <<localStorage, serverFile, clock, deleted,
                   currentEditingStudentId, currentProfileStudentId,
                   currentFilters>>
    /\ UNCHANGED <<inflight, users, attendance, classes>>

\* logoutBtn click; the button is in the bar shown while somebody is logged in
LogoutClick ==
    /\ currentUser # Null
    /\ currentUser' = Null
    /\ view' = "loginView"
    /\ last' = Step("logout", "ok", Null)
    /\ UNCHANGED <<StudentVars, clock>>
    /\ UNCHANGED <<inflight, users, controls, attendance, classes>>

\* authManager.addUser(userData)
CallAddUser(userData) ==
    /\ Len(users) < MaxUsers
    /\ LET result == addUser(users, currentUser, userData, clock) IN
       /\ users' = result.users
       /\ last' = Step("addUser", IF result.success THEN "ok" ELSE "refused",
                       IF result.success THEN toString(clock) ELSE Null)
    /\ UNCHANGED <<StudentVars, clock, view>>
    /\ UNCHANGED <<inflight, currentUser, controls, attendance, classes>>

\* authManager.deleteUser(userId)
CallDeleteUser(userId) ==
    /\ LET result == deleteUser(users, currentUser, userId) IN
       /\ users' = result.users
       /\ last' = Step("deleteUser", IF result.success THEN "ok" ELSE "refused",
                       userId)
    /\ UNCHANGED <<StudentVars, clock, view>>
    /\ UNCHANGED <<inflight, currentUser, controls, attendance, classes>>

NextAuth ==
    \/ TickAuth
    \/ \E username \in LoginNames, password \in Passwords, netLoad \in Net :
          LoginSubmit(username, password, netLoad)
    \/ LogoutClick
    \/ \E userData \in UserDatas : CallAddUser(userData)
    \/ \E userId \in UserIds : CallDeleteUser(userId)

SpecAuth == InitAuth /\ [][NextAuth]_vars

\* ------------------------------------------------------------- attendance
AttendanceStudents == {toString(1), toString(2)}

AttendanceDates == {<<Today>>, <<Today - 1>>}

Statuses == {"present", "absent"}

isMarked(list, studentId, date) ==
    \E i \in 1..Len(list) : list[i].studentId = studentId /\ list[i].date = date

\* attendanceManager.markAttendance(studentId, date, status, markedBy)
CallMarkAttendance(studentId, date, status, markedBy) ==
    /\ attendance' = markAttendance(attendance, studentId, date, status,
                                    markedBy, clock)
    /\ last' = Step("markAttendance",
                    IF isMarked(attendance, studentId, date)
                    THEN "replaced" ELSE "added", studentId)
    /\ UNCHANGED <<StudentVars, clock, view>>
    /\ UNCHANGED <<inflight, users, currentUser, controls, classes>>

NextAttendance ==
    \/ Tick
    \/ \E studentId \in AttendanceStudents, date \in AttendanceDates,
          status \in Statuses :
          CallMarkAttendance(studentId, date, status, defaultUsers[2].name)

SpecAttendance == InitLocal /\ [][NextAttendance]_vars

\* ------------------------------------------------------------------ classes
MaxClasses == 2

ClassDatas == {[className |-> <<"1", "0">>, classSection |-> <<"A">>]}

\* classManager.addClass(classData)
CallAddClass(classData) ==
    /\ Len(classes) < MaxClasses
    /\ classes' = addClass(classes, classData, clock)
    /\ last' = Step("addClass", "ok", toString(clock))
    /\ UNCHANGED <<StudentVars, clock, view>>
    /\ UNCHANGED <<inflight, users, currentUser, controls, attendance>>

\* addStudentToClass(classId, studentId) of the page, whose list of
\* available students offers the students of the collection
CallAddStudentToClass(classId, studentId) ==
    /\ getStudent(students, studentId) # <<>>
    /\ LET r == addStudentToClass(classes, classId, studentId) IN
       /\ classes' = r.classes
       /\ last' = Step("addStudentToClass", IF r.ok THEN "ok" ELSE "failed",
                       studentId)
    /\ UNCHANGED <<StudentVars, clock, view>>
    /\ UNCHANGED <<inflight, users, currentUser, controls, attendance>>

\* classManager.removeStudentFromClass(classId, studentId)
CallRemoveStudentFromClass(classId, studentId) ==
    /\ LET r == removeStudentFromClass(classes, classId, studentId) IN
       /\ classes' = r.classes
       /\ last' = Step("removeStudentFromClass",
                       IF r.ok THEN "ok" ELSE "failed", studentId)
    /\ UNCHANGED <<StudentVars, clock, view>>
    /\ UNCHANGED <<inflight, users, currentUser, controls, attendance>>

\* classManager.deleteClass(classId)
CallDeleteClass(classId) ==
    /\ classes' = deleteClass(classes, classId)
    /\ last' = Step("deleteClass", "ok", classId)
    /\ UNCHANGED <<StudentVars, clock, view>>
    /\ UNCHANGED <<inflight, users, currentUser, controls, attendance>>

NextClasses ==
    \/ Tick
    \/ \E student \in StoreForms, netOk \in Net : CallAddStudent(student, netOk)
    \/ \E id \in Ids : CallDeleteStudent(id)
    \/ \E classData \in ClassDatas : CallAddClass(classData)
    \/ \E classId \in Ids, studentId \in Ids :
          CallAddStudentToClass(classId, studentId)
    \/ \E classId \in Ids, studentId \in Ids :
          CallRemoveStudentFromClass(classId, studentId)
    \/ \E classId \in Ids : CallDeleteClass(classId)

SpecClasses == InitLocal /\ [][NextClasses]_vars

\* ================================================================== claims
sameKey(a, b) == toLowerCase(a) = toLowerCase(b)

idsOf(c) == {c[i].id : i \in 1..Len(c)}

\* C1: in local storage mode, after any sequence of add-form submissions,
\* edit-form submissions and deletions (no import), no two records with
\* different ids hold roll numbers, or admission numbers, that are equal
\* ignoring case.
C1_UniqueKeys ==
    \A i, j \in 1..Len(students) :
        students[i].id # students[j].id =>
            /\ ~sameKey(students[i].rollNo, students[j].rollNo)
            /\ ~sameKey(students[i].admissionNo, students[j].admissionNo)

\* two records with different ids are held and an edit has just been saved
C1_Witness ==
    /\ Len(students) = 2
    /\ students[1].id # students[2].id
    /\ last.op = "update" /\ last.res = "ok"

\* C2 (as claimed): a create whose rollNo or admissionNo equals, ignoring
\* case, that of an existing record fails and leaves the collection and
\* localStorage unchanged: in local mode through the add form, and in api
\* mode when the server answers the POST with 400.
C2_DuplicateCreateRejected ==
    [][\A raw \in RawForms, netPost \in BOOLEAN, netLoad \in BOOLEAN :
         LET fd == formData(raw)
             dupLocal ==
                 /\ storageMode = "local"
                 /\ \E i \in 1..Len(students) :
                       \/ sameKey(students[i].rollNo, fd.rollNo)
                       \/ sameKey(students[i].admissionNo, fd.admissionNo)
             dupApi ==
                 /\ storageMode = "api"
                 /\ netPost
                 /\ formErrors(students, raw, Null) = {}
                 /\ \E i \in 1..Len(serverFile) :
                       \/ sameKey(serverFile[i].rollNo, fd.rollNo)
                       \/ sameKey(serverFile[i].admissionNo, fd.admissionNo)
         IN  (AddFormSubmit(raw, netPost, netLoad) /\ (dupLocal \/ dupApi))
                 => (students' = students /\ localStorage' = localStorage)
      ]_vars

\* C3 (as claimed): once deleteStudent(id) has succeeded, no later
\* getStudent(id) returns a record, across every reload, in either mode, as
\* long as nothing is imported.
C3_DeletedStaysAbsent ==
    \A id \in deleted : getStudent(students, id) = <<>>

\* C4 (as claimed): after updateStudent(id, fields) has succeeded and the
\* list has been reloaded, getStudent(id) returns the record with the merged
\* fields, in local mode and in api mode.
C4_UpdateSurvivesReload ==
    [][\A raw \in RawForms, netLoad \in BOOLEAN :
         (EditFormSubmit(raw, netLoad) /\ last'.res = "ok")
             => LET g == getStudent(students', currentEditingStudentId) IN
                /\ g # <<>>
                /\ g[1].id = currentEditingStudentId
                /\ \A f \in Fields : g[1][f] = formData(raw)[f]
      ]_vars

\* C5 (as claimed): every created record receives an id different from the
\* id of every record already in the collection, on the client and on the
\* server, also for two creates within the same clock millisecond.
C5_FreshId ==
    [][/\ (last'.op = "create" /\ last'.res = "ok")
            => last'.id \notin idsOf(students)
       /\ (last'.op = "POST" /\ last'.res = "ok")
            => last'.id \notin idsOf(serverFile)
      ]_vars

\* the record the edit form was opened on, and what the user re-enters
OwnKeysReentered(raw) ==
    LET own == getStudent(students, currentEditingStudentId) IN
    /\ own # <<>>
    /\ sameKey(trim(raw.rollNo), own[1].rollNo)
    /\ sameKey(trim(raw.admissionNo), own[1].admissionNo)

\* no record with another id holds the keys of the record being edited
NoOtherHolder ==
    LET own == getStudent(students, currentEditingStudentId) IN
    \A i \in 1..Len(students) :
        students[i].id # currentEditingStudentId =>
            /\ ~sameKey(students[i].rollNo, own[1].rollNo)
            /\ ~sameKey(students[i].admissionNo, own[1].admissionNo)

\* C6 (as claimed): editing a record without changing its own rollNo and
\* admissionNo, in whatever letter case, never raises a duplicate error.
C6_NeverFalseDuplicate ==
    [][\A raw \in RawForms, netLoad \in BOOLEAN :
         (EditFormSubmit(raw, netLoad) /\ OwnKeysReentered(raw))
             => last'.res # "taken"
      ]_vars

\* C6 (amended): editing a record without changing its own rollNo and
\* admissionNo, in whatever letter case, raises no duplicate error, and the
\* update succeeds when the other fields are valid, provided no record with
\* a different id holds the same rollNo or admissionNo ignoring case.
C6_SelfExclusion ==
    [][(view = "editStudentView" /\ last'.op = "update") =>
         \A raw \in RawForms, netLoad \in BOOLEAN :
            (OwnKeysReentered(raw) /\ NoOtherHolder /\ EditFormSubmit(raw, netLoad))
                => /\ last'.res # "taken"
                   /\ formErrors(<<>>, raw, Null) = {} => last'.res = "ok"
      ]_vars

\* an edit that re-entered the keys in capitals has been saved next to
\* another record
C6_Witness ==
    /\ last.op = "update" /\ last.res = "ok"
    /\ Len(students) = 2
    /\ students[1].id # students[2].id
    /\ \E i \in 1..2 : /\ students[i].id = last.id
                       /\ students[i].rollNo = R1
                       /\ students[i].admissionNo = X1

\* C7 (as claimed): deleteStudent(id) on an existing id removes exactly one
\* record, the one with that id: the collection shrinks by one, getStudent(id)
\* then returns nothing, and the other records remain, unchanged and in order.
C7_DeleteRemovesExactlyOne ==
    [][\A id \in CallIds :
         (CallDeleteStudent(id) /\ id \in idsOf(students))
             => /\ Len(students') = Len(students) - 1
                /\ getStudent(students', id) = <<>>
                /\ \E k \in 1..Len(students) :
                      /\ students[k].id = id
                      /\ \A j \in 1..Len(students') :
                            students'[j] = students[IF j < k THEN j ELSE j + 1]
      ]_vars

\* C8: deleteStudent and updateStudent called with an id that is not in the
\* collection fail with 'Student not found' and leave the in-memory collection
\* and the localStorage copy unchanged.
C8_NotFoundChangesNothing ==
    [][\A id \in CallIds :
         (/\ id \notin idsOf(students)
          /\ \/ CallDeleteStudent(id)
             \/ \E updatedData \in UpdateDatas : CallUpdateStudent(id, updatedData))
             => /\ last'.res = "notFound"
                /\ students' = students
                /\ localStorage' = localStorage
      ]_vars

\* a call with an unknown id has just been refused while records are held
C8_Witness ==
    /\ last.op \in {"delete", "update"}
    /\ last.res = "notFound"
    /\ last.id \notin idsOf(students)
    /\ Len(students) = 2

\* C9 (as claimed): a create followed by getStudent(assigned id) returns a
\* record whose fields equal the input fields plus the assigned id, and the
\* record is appended at the end of the collection.
C9_CreateThenGet ==
    [][\A student \in StoreForms, netOk \in BOOLEAN :
         CallAddStudent(student, netOk)
             => LET g == getStudent(students', last'.id) IN
                /\ g # <<>>
                /\ g[1].id = last'.id
                /\ \A f \in Fields : g[1][f] = student[f]
                /\ Len(students') = Len(students) + 1
                /\ students'[Len(students')] = g[1]
                /\ \A j \in 1..Len(students) : students'[j] = students[j]
      ]_vars

\* C10: updateStudent(id, fields) changes only the record with that id:
\* supplied fields replace the old values, fields not supplied keep them, the
\* record's id stays id even when fields carries another id, the record keeps
\* its position, and every other record is unchanged.
C10_UpdateFrame ==
    [][\A id \in CallIds, updatedData \in UpdateDatas :
         (CallUpdateStudent(id, updatedData) /\ last'.res = "ok")
             => /\ Len(students') = Len(students)
                /\ \E k \in 1..Len(students) :
                      /\ students[k].id = id
                      /\ students'[k].id = id
                      /\ \A f \in DOMAIN updatedData \ {"id"} :
                            students'[k][f] = updatedData[f]
                      /\ \A f \in DOMAIN students[k] \ DOMAIN updatedData :
                            students'[k][f] = students[k][f]
                      /\ DOMAIN students'[k] = DOMAIN students[k] \cup DOMAIN updatedData
                      /\ \A j \in 1..Len(students) \ {k} :
                            students'[j] = students[j]
      ]_vars

\* an update has just succeeded on one of two held records
C10_Witness ==
    /\ last.op = "update" /\ last.res = "ok"
    /\ Len(students) = 2
    /\ \E k \in 1..2 : students[k].id = last.id /\ students[k].rollNo = R1
    /\ \E k \in 1..2 : students[k].id # last.id

\* C11: storageMode makes at most one transition in a session, from 'api' to
\* 'local', taken on the first failed remote request (the GET of loadStudents
\* or the POST of addStudent, a refusal by the server included); once it is
\* 'local' it never becomes 'api' again, and no later operation issues a
\* remote request: loads read localStorage and nothing writes the server file.
C11_SingleTransition ==
    [][/\ storageMode = "local" =>
             /\ storageMode' = "local"
             /\ serverFile' = serverFile
             /\ (\E netOk \in BOOLEAN : CallLoadStudents(netOk))
                    => students' = localStorage
       /\ \A netOk \in BOOLEAN :
             (storageMode = "api" /\ CallLoadStudents(netOk))
                 => (storageMode' = "local" <=> ~netOk)
       /\ \A student \in StoreForms, netOk \in BOOLEAN :
             (storageMode = "api" /\ CallAddStudent(student, netOk))
                 => (storageMode' = "local" <=>
                        \/ ~netOk
                        \/ postStudents(serverFile, student, clock).status # 201)
       /\ (\E id \in CallIds :
               \/ CallDeleteStudent(id)
               \/ \E updatedData \in UpdateDatas : CallUpdateStudent(id, updatedData))
             => storageMode' = storageMode
      ]_vars

\* the session wrote to the server, fell back, and has since loaded from
\* localStorage a collection that differs from the server's
C11_Witness ==
    /\ storageMode = "local"
    /\ serverFile # <<>>
    /\ last.op = "load"
    /\ students = localStorage
    /\ students # serverFile

\* a filter control has just fired
FilterStep == \E netLoad \in BOOLEAN : applyFiltersAndSort(netLoad)

\* sub occurs in str
isSubstring(sub, str) ==
    \E i \in 1..(Len(str) + 1), j \in 0..Len(str) :
        j >= i - 1 /\ SubSeq(str, i, j) = sub

\* the record matches the search term
Matches(r, term) ==
    LET t == toLowerCase(term) IN
    \/ isSubstring(t, toLowerCase(r.firstName \o <<" ">> \o r.lastName))
    \/ isSubstring(t, toLowerCase(r.rollNo))
    \/ isSubstring(t, toLowerCase(r.admissionNo))

\* the record satisfies every non-empty criterion
Satisfies(r, c) ==
    /\ c.searchTerm = <<>> \/ Matches(r, c.searchTerm)
    /\ c.class = <<>> \/ r.class = c.class
    /\ c.section = <<>> \/ r.section = c.section

\* the positions of a collection that satisfy the criteria
SatisfyingAt(c) == {i \in 1..Len(students) : Satisfies(students[i], c)}

occurrences(list, r) == Cardinality({i \in 1..Len(list) : list[i] = r})

\* list holds the satisfying records of the collection, each as often
isPermutationOfFiltered(list, c) ==
    /\ Len(list) = Cardinality(SatisfyingAt(c))
    /\ \A i \in SatisfyingAt(c) :
          occurrences(list, students[i]) =
              Cardinality({k \in SatisfyingAt(c) : students[k] = students[i]})

rollsOf(list) == [i \in 1..Len(list) |-> list[i].rollNo]

allDigits(s) == s # <<>> /\ \A i \in 1..Len(s) : IsDigit(s[i])

C13_ExactlyTheMatching ==
    [][FilterStep =>
         LET c == currentFilters'
             sat(r) == Satisfies(r, c)
         IN  /\ isPermutationOfFiltered(studentsList', c)
             /\ \A j \in 1..Len(studentsList') : Satisfies(studentsList'[j], c)
             /\ c.sortBy = "" => studentsList' = SelectSeq(students, sat)
             /\ (c.searchTerm = <<>> /\ c.class = <<>> /\ c.section = <<>>)
                    => Len(studentsList') = Len(students)
      ]_vars

\* a search term, a class and a section together have kept one record of
\* three, with no sort key
C13_Witness ==
    /\ last.op = "filter"
    /\ currentFilters.searchTerm # <<>>
    /\ currentFilters.class # <<>>
    /\ currentFilters.section # <<>>
    /\ currentFilters.sortBy = ""
    /\ Len(students) = 3
    /\ Len(studentsList) = 1

\* C14: a record matches a search term iff the lower-cased term is a
\* substring of its lower-cased full name, of its lower-cased rollNo or of its
\* lower-cased admissionNo; the term 'ann' matches both a record with first
\* name 'Ann' and a record with last name 'Ann'.
C14_SearchMatch ==
    [][(FilterStep /\ currentFilters'.searchTerm # <<>>
            /\ currentFilters'.class = <<>> /\ currentFilters'.section = <<>>)
         => /\ \A i \in 1..Len(students) :
                  (\E j \in 1..Len(studentsList') : studentsList'[j] = students[i])
                      <=> Matches(students[i], currentFilters'.searchTerm)
            /\ currentFilters'.searchTerm = <<"a", "n", "n">> =>
                  \A i \in 1..Len(students) :
                      (students[i].firstName = Ann \/ students[i].lastName = Ann)
                          => \E j \in 1..Len(studentsList') :
                                studentsList'[j] = students[i]
      ]_vars

\* the term 'ann' has kept a record whose first name is Ann and a record whose
\* last name is Ann
C14_Witness ==
    /\ last.op = "filter"
    /\ currentFilters.searchTerm = <<"a", "n", "n">>
    /\ Len(studentsList) = 2
    /\ studentsList[1].firstName = Ann /\ studentsList[1].lastName = Lee
    /\ studentsList[2].firstName = Bob /\ studentsList[2].lastName = Ann

\* C15: sorting by roll number compares numeric roll numbers as numbers: the
\* roll numbers "2", "10", "1" come out as "1", "2", "10" under roll-asc and
\* in the reverse order under roll-desc; the output is a permutation of the
\* filtered records.
C15_RollNumeric ==
    [][(FilterStep /\ currentFilters'.sortBy \in {"roll-asc", "roll-desc"})
         => LET out == studentsList'
                asc == currentFilters'.sortBy = "roll-asc"
            IN  /\ isPermutationOfFiltered(out, currentFilters')
                /\ \A i \in 1..(Len(out) - 1) :
                      (allDigits(out[i].rollNo) /\ allDigits(out[i + 1].rollNo))
                          => IF asc
                             THEN digitsValue(out[i].rollNo)
                                      <= digitsValue(out[i + 1].rollNo)
                             ELSE digitsValue(out[i].rollNo)
                                      >= digitsValue(out[i + 1].rollNo)
                /\ (rollsOf(students) = <<<<"2">>, <<"1", "0">>, <<"1">>>>
                        /\ Len(out) = 3)
                      => rollsOf(out) = IF asc
                                        THEN <<<<"1">>, <<"2">>, <<"1", "0">>>>
                                        ELSE <<<<"1", "0">>, <<"2">>, <<"1">>>>
      ]_vars

\* the roll numbers "2", "10", "1" have just been sorted by roll-asc
C15_Witness ==
    /\ last.op = "filter"
    /\ currentFilters.sortBy = "roll-asc"
    /\ rollsOf(students) = <<<<"2">>, <<"1", "0">>, <<"1">>>>
    /\ rollsOf(studentsList) = <<<<"1">>, <<"2">>, <<"1", "0">>>>

\* list is in the order the kind of sort asks for
Ordered(list, kind) ==
    \A i \in 1..(Len(list) - 1) :
        LET a == list[i]
            b == list[i + 1]
        IN  CASE kind = "name-asc" ->
                    localeCompare(fullName(a), fullName(b), FALSE) <= 0
              [] kind = "name-desc" ->
                    localeCompare(fullName(a), fullName(b), FALSE) >= 0
              [] kind = "roll-asc" -> localeCompare(a.rollNo, b.rollNo, TRUE) <= 0
              [] kind = "roll-desc" -> localeCompare(a.rollNo, b.rollNo, TRUE) >= 0
              [] kind = "newest" -> digitsValue(a.id) >= digitsValue(b.id)
              [] kind = "oldest" -> digitsValue(a.id) <= digitsValue(b.id)

\* the output of a filter step is ordered under the sort key in force, the
\* two sorts by creation time going by the names newest and oldest
OrdersUnder(newest, oldest) ==
    FilterStep =>
        LET k == currentFilters'.sortBy IN
        /\ k \in {"name-asc", "name-desc", "roll-asc", "roll-desc"}
              => Ordered(studentsList', k)
        /\ k = newest => Ordered(studentsList', "newest")
        /\ k = oldest => Ordered(studentsList', "oldest")
        /\ k \in {"name-asc", "name-desc", "roll-asc", "roll-desc", newest, oldest}
              => isPermutationOfFiltered(studentsList', currentFilters')

\* C16 (as claimed): each of the six sort keys name-asc, name-desc, roll-asc,
\* roll-desc, created-newest, created-oldest orders the output; created-newest
\* by descending and created-oldest by ascending numeric value of id.
C16_SpecKeysOrder == [][OrdersUnder("created-newest", "created-oldest")]_vars

\* C16 (amended): each of the six sort keys name-asc, name-desc, roll-asc,
\* roll-desc, date-newest, date-oldest orders the output; date-newest by
\* descending and date-oldest by ascending numeric value of id.
C16_CodeKeysOrder == [][OrdersUnder("date-newest", "date-oldest")]_vars

\* the ids "10", "9", "2" have just come out newest first
C16_Witness ==
    /\ last.op = "filter"
    /\ currentFilters.sortBy = "date-newest"
    /\ Len(studentsList) = 3
    /\ studentsList[1].id = <<"1", "0">>
    /\ studentsList[2].id = <<"9">>
    /\ studentsList[3].id = <<"2">>
    /\ students[1].id = <<"1", "0">> /\ students[2].id = <<"9">>

\* the submission was refused and nothing was stored
Refused ==
    /\ last'.res \in {"invalid", "taken"}
    /\ students' = students
    /\ localStorage' = localStorage

\* what C17 asks of a submission of raw whose other errors are errs
DobRule(raw, errs) ==
    /\ (raw.dob # <<>> /\ raw.dob[1] >= Today) => Refused
    /\ raw.dob = <<Today - 3 * YearLen + 1>> => Refused
    /\ (raw.dob = <<Today - 3 * YearLen - 1>> /\ errs \subseteq {<<"dob", "date">>})
          => last'.res = "ok"

NoStudentsArray(jsonData) ==
    \/ jsonData.type = "null"
    \/ "students" \notin DOMAIN jsonData
    \/ jsonData.students.type # "array"

\* C18: importData with a payload that has no students key, or whose students
\* is not a sequence (a null payload included), returns false and changes
\* neither the in-memory collection nor the localStorage copy.
C18_BadImportChangesNothing ==
    [][\A jsonData \in ImportPayloads :
         ((\E netLoad \in BOOLEAN : ImportFile(jsonData, netLoad))
              /\ NoStudentsArray(jsonData))
             => /\ last'.res = "invalid"
                /\ students' = students
                /\ localStorage' = localStorage
      ]_vars

\* an import has just been refused while records are held
C18_Witness ==
    /\ last.op = "import" /\ last.res = "invalid"
    /\ Len(students) = 2
    /\ localStorage = students

\* C19 (as claimed): importData with a payload whose students is a sequence
\* succeeds with no per-record validation: afterwards the collection is
\* exactly the payload's students in the payload's order, that collection is
\* persisted, and it is still the collection after the list refresh that
\* follows the import, in either storage mode.
C19_ImportReplaces ==
    [][\A jsonData \in ImportPayloads, netLoad \in BOOLEAN :
         (ImportFile(jsonData, netLoad) /\ ~NoStudentsArray(jsonData))
             => /\ last'.res = "ok"
                /\ localStorage' = jsonData.students.items
                /\ students' = jsonData.students.items
      ]_vars

\* C20 (as claimed): after any sequence of sequentially processed POST, PUT
\* and DELETE requests, the server's data file never holds two students with
\* different ids whose rollNo are equal ignoring case, nor two whose
\* admissionNo are equal ignoring case.
C20_ServerUniqueKeys ==
    \A i, j \in 1..Len(serverFile) :
        serverFile[i].id # serverFile[j].id =>
            /\ ~sameKey(serverFile[i].rollNo, serverFile[j].rollNo)
            /\ ~sameKey(serverFile[i].admissionNo, serverFile[j].admissionNo)

\* ------------------------------------------------ the server's status codes
ServerOps ==
    {"GET /api/students", "GET /api/students/:id", "POST /api/students",
     "PUT /api/students/:id", "DELETE /api/students/:id"}

ServedLast == last.op \in ServerOps

AllPresent(body) == \A f \in RequiredFields : ~falsy(body, f)

Collides(stored, body) ==
    \E i \in 1..Len(stored) :
        \/ sameKey(stored[i].rollNo, body.rollNo)
        \/ sameKey(stored[i].admissionNo, body.admissionNo)

\* C21: the status code follows from the request and the stored data: a
\* request whose write to the data file fails answers 500; otherwise POST
\* answers 201 if all seven required fields are present and neither rollNo
\* nor admissionNo collides, ignoring case, with a stored student, and 400
\* if not; GET, PUT and DELETE of an id that is not stored answer 404.
C21_StatusCodes ==
    ServedLast =>
        /\ (last.wrote /\ ~last.writeOk) => last.res = 500
        /\ (last.op = "POST /api/students" /\ ~(last.wrote /\ ~last.writeOk)) =>
              last.res = IF AllPresent(last.body) /\ ~Collides(last.read, last.body)
                         THEN 201 ELSE 400
        /\ (last.op \in {"GET /api/students/:id", "PUT /api/students/:id",
                         "DELETE /api/students/:id"}
            /\ last.id \notin idsOf(last.read)) => last.res = 404

\* C22: a request answered 400 or 404 leaves the data file as it was.
C22_RejectedLeavesFile ==
    (ServedLast /\ last.res \in {400, 404}) => serverFile = last.before

C22_Witness ==
    /\ ServedLast
    /\ last.res = 400
    /\ last.op = "POST /api/students"
    /\ AllPresent(last.body)
    /\ Len(serverFile) > 0

\* C23: in local mode, after every create, update, delete or import, whether
\* it returned normally or failed because localStorage.setItem threw, the
\* in-memory collection equals the collection persisted in localStorage.
C23_NoPartialState ==
    last.op \in {"create", "update", "delete", "import"} => students = localStorage

\* C24: when the data file cannot be read or parsed, GET /api/students
\* answers 200 with the empty list, and a POST, PUT or DELETE computes what
\* it writes back from the empty list: the POST that is written leaves only
\* its new student in the file, the PUT and the DELETE find nothing and
\* answer 404.
C24_ReadFailureIsEmpty ==
    (ServedLast /\ ~last.readOk) =>
        /\ last.read = <<>>
        /\ last.op = "GET /api/students" => (last.res = 200 /\ last.body = <<>>)
        /\ last.op = "POST /api/students" =>
              (last.res = 201 => (Len(serverFile) = 1 /\ serverFile[1].id = toString(clock)))
        /\ last.op \in {"PUT /api/students/:id", "DELETE /api/students/:id"} =>
              (last.res = 404 /\ serverFile = last.before)

C24_Witness ==
    /\ ServedLast
    /\ last.op = "POST /api/students"
    /\ Len(last.before) = 1
    /\ ~last.readOk
    /\ last.res = 201
    /\ Len(serverFile) = 1
    /\ serverFile # last.before

\* C25: when POST handlers interleave at their awaits, no acknowledged write
\* is lost: once two requests that were in flight together have both been
\* answered 201, the data file holds both new students, and their roll
\* numbers are not equal ignoring case.
C25_NoLostWrite ==
    \A i, j \in 1..Len(inflight) :
        (i < j /\ inflight[i].status = 201 /\ inflight[j].status = 201) =>
            /\ \E k \in 1..Len(serverFile) : serverFile[k] = inflight[i].created
            /\ \E k \in 1..Len(serverFile) : serverFile[k] = inflight[j].created
            /\ ~sameKey(inflight[i].body.rollNo, inflight[j].body.rollNo)

\* ------------------------------------------------------ logins and accounts
\* C26: after any logins and logouts, while a user is logged in the Manage
\* Users button is displayed exactly if the user is an admin, and so are the
\* Add Student, Delete Student, Export and Import buttons.
C26_ControlsMatchRole ==
    currentUser # Null =>
        \A b \in Buttons : controls[b] = (currentUser.role = "admin")

\* C28: the default admin account (id '1') stays in the user list, the
\* account of the user logged in is never removed, and a deleteUser of the
\* default admin, of the own account or of an unknown id returns success
\* false and leaves the list as it was.
C28_AccountsKept ==
    [][/\ \E i \in 1..Len(users') : users'[i].id = <<"1">>
       /\ currentUser' # Null
              => \E i \in 1..Len(users') : users'[i].id = currentUser'.id
       /\ \A userId \in UserIds :
            (/\ CallDeleteUser(userId)
             /\ \/ userId = <<"1">>
                \/ userId = idOf(currentUser)
                \/ findIndex(users, userId) = 0)
            => (last'.res = "refused" /\ users' = users)
      ]_vars

C28_Witness ==
    /\ last.op = "deleteUser"
    /\ last.res = "refused"
    /\ currentUser # Null
    /\ last.id = currentUser.id
    /\ last.id # <<"1">>
    /\ Len(users) > 2

\* C29: no two users have usernames, or emails, that are equal ignoring
\* case, as isUsernameUnique and isEmailUnique compare them, and an addUser
\* whose username or email is taken in that sense returns success false and
\* leaves the user list as it was.
C29_UniqueIgnoringCase ==
    [][/\ \A i, j \in 1..Len(users') :
            i # j => /\ toLowerCase(users'[i].username) # toLowerCase(users'[j].username)
                     /\ toLowerCase(users'[i].email) # toLowerCase(users'[j].email)
       /\ \A userData \in UserDatas :
            (/\ CallAddUser(userData)
             /\ \/ ~isUsernameUnique(users, userData.username, Null)
                \/ ~isEmailUnique(users, userData.email, Null))
            => (last'.res = "refused" /\ users' = users)
      ]_vars

\* --------------------------------------------------- attendance and classes
recordsOf(list, studentId, date) ==
    {i \in 1..Len(list) : list[i].studentId = studentId /\ list[i].date = date}

\* the records of the other pairs, in their order
othersOf(list, studentId, date) ==
    LET other(a) == ~(a.studentId = studentId /\ a.date = date) IN
    SelectSeq(list, other)

\* C27: the attendance list holds at most one record for each pair of
\* student and date; after a markAttendance call the pair's one record
\* carries the status of the call, and the records of the other pairs are
\* as they were.
C27_OneRecordPerPair ==
    [][/\ \A studentId \in AttendanceStudents, date \in AttendanceDates :
            Cardinality(recordsOf(attendance', studentId, date)) <= 1
       /\ \A studentId \in AttendanceStudents, date \in AttendanceDates,
             status \in Statuses :
            CallMarkAttendance(studentId, date, status, defaultUsers[2].name) =>
                /\ \E i \in recordsOf(attendance', studentId, date) :
                       attendance'[i].status = status
                /\ othersOf(attendance', studentId, date)
                       = othersOf(attendance, studentId, date)
      ]_vars

C27_Witness ==
    /\ last.op = "markAttendance"
    /\ last.res = "replaced"
    /\ Len(attendance) = 2
    /\ attendance[1].id # attendance[2].id

\* C30: every student id listed in a class refers to a record of the
\* student collection, no id is listed twice in a class, and the student
\* count shown for a class is the number of its existing students.
C30_ClassMembersExist ==
    \A c \in 1..Len(classes) :
        /\ \A k \in 1..Len(classes[c].students) :
               getStudent(students, classes[c].students[k]) # <<>>
        /\ \A k, l \in 1..Len(classes[c].students) :
               k # l => classes[c].students[k] # classes[c].students[l]
        /\ shownCount(classes[c]) = Len(renderClassStudents(classes[c], students))

====
